---- MODULE Spec2Model ----
(***************************************************************************)
(* Content variance engine: the programmatic compliance checkers           *)
(* (pipeline/compliance.py), the template renderers                        *)
(* (pipeline/templates.py), the result objects (pipeline/schemas.py) and   *)
(* the combined validation (pipeline/validate.py).                         *)
(*                                                                         *)
(* A text (Python str) is a sequence of characters; a character is a       *)
(* string naming it: "a", "%", " ", and "U2264" for the single character   *)
(* U+2264 (less-than-or-equal sign).                                       *)
(***************************************************************************)
EXTENDS Integers, Sequences, FiniteSets, TLC

VARIABLES claims, html, origin, checks, report, result, raised, run

vars == <<claims, html, origin, checks, report, result, raised, run>>

\* Python's None, where a record is expected
None == [none |-> TRUE]

-----------------------------------------------------------------------------
(* Characters and str primitives                                           *)

Digit == {"0", "1", "2", "3", "4", "5", "6", "7", "8", "9"}

\* str.isspace / regex \s
Whitespace == {" ", "\n", "\t"}

\* str.lower, letter by letter
LowerOf ==
  [c \in {"A", "B", "C", "D", "E", "F", "G", "H", "I", "J", "K", "L", "M",
          "N", "O", "P", "Q", "R", "S", "T", "U", "V", "W", "X", "Y", "Z"} |->
     CASE c = "A" -> "a" [] c = "B" -> "b" [] c = "C" -> "c" [] c = "D" -> "d"
       [] c = "E" -> "e" [] c = "F" -> "f" [] c = "G" -> "g" [] c = "H" -> "h"
       [] c = "I" -> "i" [] c = "J" -> "j" [] c = "K" -> "k" [] c = "L" -> "l"
       [] c = "M" -> "m" [] c = "N" -> "n" [] c = "O" -> "o" [] c = "P" -> "p"
       [] c = "Q" -> "q" [] c = "R" -> "r" [] c = "S" -> "s" [] c = "T" -> "t"
       [] c = "U" -> "u" [] c = "V" -> "v" [] c = "W" -> "w" [] c = "X" -> "x"
       [] c = "Y" -> "y" [] c = "Z" -> "z"]

LowerChar(c) == IF c \in DOMAIN LowerOf THEN LowerOf[c] ELSE c

Lower(s) == [i \in 1..Len(s) |-> LowerChar(s[i])]

\* regex \w (the characters on either side of a \b)
WordChar == Digit \cup DOMAIN LowerOf \cup {LowerOf[c] : c \in DOMAIN LowerOf} \cup {"_"}

\* s[i-1:].startswith(p), 1-based
MatchAt(s, i, p) ==
  /\ i >= 1
  /\ i + Len(p) - 1 <= Len(s)
  /\ \A k \in 1..Len(p) : s[i + k - 1] = p[k]

\* the same, ignoring letter case (re.IGNORECASE on a literal)
MatchAtCI(s, i, p) ==
  /\ i >= 1
  /\ i + Len(p) - 1 <= Len(s)
  /\ \A k \in 1..Len(p) : LowerChar(s[i + k - 1]) = LowerChar(p[k])

\* p in s
Contains(s, p) ==
  \/ p = <<>>
  \/ \E i \in 1..(Len(s) - Len(p) + 1) : s[i] = p[1] /\ MatchAt(s, i, p)

Min(S) == CHOOSE x \in S : \A y \in S : x <= y

\* least index in a..Len(s) holding a character of C, Len(s)+1 when none
FirstIn(s, a, C) ==
  IF a > Len(s) THEN Len(s) + 1
  ELSE CHOOSE j \in a..(Len(s) + 1) :
         (j = Len(s) + 1 \/ s[j] \in C) /\ \A k \in a..(j - 1) : s[k] \notin C

\* least index in a..Len(s) holding a character outside C, Len(s)+1 when none
FirstNotIn(s, a, C) ==
  IF a > Len(s) THEN Len(s) + 1
  ELSE CHOOSE j \in a..(Len(s) + 1) :
         (j = Len(s) + 1 \/ s[j] \notin C) /\ \A k \in a..(j - 1) : s[k] \in C

\* str.strip()
Strip(s) ==
  LET a == FirstNotIn(s, 1, Whitespace)
      K == {j \in 1..Len(s) : s[j] \notin Whitespace}
  IN IF K = {} THEN <<>> ELSE SubSeq(s, a, CHOOSE j \in K : \A k \in K : k <= j)

\* str.replace(c, "") for a single character c
RemoveChar(s, c) == SelectSeq(s, LAMBDA x : x # c)

RECURSIVE Flatten(_)
Flatten(ss) == IF ss = <<>> THEN <<>> ELSE Head(ss) \o Flatten(Tail(ss))

-----------------------------------------------------------------------------
(* decimal.Decimal, as far as the checkers use it: construction from a     *)
(* string, equality by value, str().  A Decimal is [neg, coef, scale]      *)
(* standing for (-1)^neg * coef / 10^scale, as the string wrote it.        *)

DigitVal ==
  [c \in Digit |->
     CASE c = "0" -> 0 [] c = "1" -> 1 [] c = "2" -> 2 [] c = "3" -> 3 [] c = "4" -> 4
       [] c = "5" -> 5 [] c = "6" -> 6 [] c = "7" -> 7 [] c = "8" -> 8 [] c = "9" -> 9]

DigitChar == <<"0", "1", "2", "3", "4", "5", "6", "7", "8", "9">>

RECURSIVE DigitsValue(_)
DigitsValue(ds) ==
  IF ds = <<>> THEN 0
  ELSE 10 * DigitsValue(SubSeq(ds, 1, Len(ds) - 1)) + DigitVal[ds[Len(ds)]]

\* Decimal(t): [sign] digits [ "." [digits] ] or [sign] "." digits, whitespace
\* around it ignored; InvalidOperation (None here) otherwise.  The exponent,
\* Infinity and NaN forms use letters no statistic of the model contains.
Decimal(t) ==
  LET Number(u, signed, body) ==
        LET Parsed(dots, digs) ==
              IF /\ \A i \in 1..Len(body) : body[i] \in Digit \cup {"."}
                 /\ Cardinality(dots) <= 1
                 /\ digs # <<>>
              THEN [neg |-> signed /\ u[1] = "-",
                    coef |-> DigitsValue(digs),
                    scale |-> IF dots = {} THEN 0 ELSE Len(body) - Min(dots)]
              ELSE None
        IN Parsed({i \in 1..Len(body) : body[i] = "."},
                  SelectSeq(body, LAMBDA c : c \in Digit))
      Signed(u, signed) == Number(u, signed, IF signed THEN Tail(u) ELSE u)
      Stripped(u) == Signed(u, u # <<>> /\ u[1] \in {"+", "-"})
  IN Stripped(Strip(t))

\* the value of a Decimal: trailing zeros of the fraction dropped, -0 = 0
RECURSIVE Canon(_)
Canon(d) ==
  IF d.scale > 0 /\ d.coef % 10 = 0
  THEN Canon([d EXCEPT !.coef = d.coef \div 10, !.scale = d.scale - 1])
  ELSE IF d.coef = 0 THEN [d EXCEPT !.neg = FALSE] ELSE d

\* Decimal.__eq__ (never called on None)
DecimalEq(a, b) == Canon(a) = Canon(b)

RECURSIVE NatStr(_)
NatStr(n) == IF n < 10 THEN <<DigitChar[n + 1]>> ELSE NatStr(n \div 10) \o <<DigitChar[(n % 10) + 1]>>

RECURSIVE Zeros(_)
Zeros(k) == IF k <= 0 THEN <<>> ELSE <<"0">> \o Zeros(k - 1)

\* str(Decimal): the coefficient with the point put back
DecimalStr(d) ==
  LET Point(padded, n) ==
        (IF d.neg THEN <<"-">> ELSE <<>>)
        \o SubSeq(padded, 1, n - d.scale)
        \o (IF d.scale > 0 THEN <<".">> \o SubSeq(padded, n - d.scale + 1, n) ELSE <<>>)
      Padded(padded) == Point(padded, Len(padded))
      Digits(ds) == Padded(Zeros(d.scale + 1 - Len(ds)) \o ds)
  IN Digits(NatStr(d.coef))

-----------------------------------------------------------------------------
(* pipeline/compliance.py                                                  *)

_normalize_number(s) == Decimal(Strip(RemoveChar(Strip(s), "%")))

\* One match of  <tag[^>]*>.*?</tag>  (DOTALL, IGNORECASE) starting at p:
\* the index of its last character, 0 when there is no match at p.
TagMatchEnd(s, p, tag) ==
  IF p > Len(s) \/ s[p] # "<" \/ ~MatchAtCI(s, p, <<"<">> \o tag) THEN 0
  ELSE LET Closed(gt, close, end) ==
             IF gt > Len(s) \/ end > Len(s) THEN 0 ELSE end + Len(close) - 1
           Closing(gt, close) ==
             LET At(j) == s[j] = "<" /\ MatchAtCI(s, j, close)
             IN Closed(gt, close,
                       IF gt >= Len(s) THEN Len(s) + 1
                       ELSE CHOOSE j \in (gt + 1)..(Len(s) + 1) :
                              (j = Len(s) + 1 \/ At(j)) /\ \A k \in (gt + 1)..(j - 1) : ~At(k))
       IN Closing(FirstIn(s, p + Len(tag) + 1, {">"}), <<"<", "/">> \o tag \o <<">">>)

\* re.sub(pattern, "", text): leftmost matches, left to right, not overlapping
RECURSIVE StripTagFrom(_, _, _)
StripTagFrom(s, i, tag) ==
  LET Cut(p) ==
        IF p > Len(s) THEN SubSeq(s, i, Len(s))
        ELSE SubSeq(s, i, p - 1) \o StripTagFrom(s, TagMatchEnd(s, p, tag) + 1, tag)
      At(p) == TagMatchEnd(s, p, tag) # 0
  IN Cut(IF i > Len(s) THEN Len(s) + 1
         ELSE CHOOSE p \in i..(Len(s) + 1) :
                (p = Len(s) + 1 \/ At(p)) /\ \A q \in i..(p - 1) : ~At(q))

RECURSIVE _strip_tags(_, _)
_strip_tags(text, tags) ==
  IF tags = <<>> THEN text
  ELSE _strip_tags(StripTagFrom(text, 1, Head(tags)), Tail(tags))

TagStyle == <<"s", "t", "y", "l", "e">>
TagScript == <<"s", "c", "r", "i", "p", "t">>

_visible_text(html_content) == _strip_tags(html_content, <<TagStyle, TagScript>>)

\* The number a match of (\d+\.?\d*) starting at the digit s[p] captures:
\* the index of its last character.
NumberEnd(s, p) ==
  LET After(d1) ==
        IF d1 <= Len(s) /\ s[d1] = "." THEN FirstNotIn(s, d1 + 1, Digit) - 1 ELSE d1 - 1
  IN After(FirstNotIn(s, p, Digit))

\* One match of (\d+\.?\d*)\s*% starting at p: <<end of group 1, end of the
\* match>>, <<0, 0>> when there is none.  Backtracking finds nothing the
\* greedy attempt misses: a shorter number is followed by a digit or ".".
PercentMatch(s, p) ==
  IF p > Len(s) \/ s[p] \notin Digit THEN <<0, 0>>
  ELSE LET Ends(e, w) == IF w <= Len(s) /\ s[w] = "%" THEN <<e, w>> ELSE <<0, 0>>
           Number(e) == Ends(e, FirstNotIn(s, e + 1, Whitespace))
       IN Number(NumberEnd(s, p))

\* re.findall(r"(\d+\.?\d*)\s*%", s): the captured texts, in order
RECURSIVE FindPercents(_, _)
FindPercents(s, i) ==
  LET Take(p, m) == <<SubSeq(s, p, m[1])>> \o FindPercents(s, m[2] + 1)
      At(p) == IF p > Len(s) THEN <<>> ELSE Take(p, PercentMatch(s, p))
      Hit(p) == PercentMatch(s, p)[2] # 0
  IN At(IF i > Len(s) THEN Len(s) + 1
        ELSE CHOOSE p \in i..(Len(s) + 1) :
               (p = Len(s) + 1 \/ Hit(p)) /\ \A q \in i..(p - 1) : ~Hit(q))

\* One match of \b(\d+\.?\d*)\s*%? starting at p (it cannot fail once a digit
\* stands at a word boundary): <<end of group 1, end of the match>>.
NumberMatch(s, p) ==
  IF p > Len(s) \/ s[p] \notin Digit \/ (p > 1 /\ s[p - 1] \in WordChar) THEN <<0, 0>>
  ELSE LET Ends(e, w) == IF w <= Len(s) /\ s[w] = "%" THEN <<e, w>> ELSE <<e, w - 1>>
           Number(e) == Ends(e, FirstNotIn(s, e + 1, Whitespace))
       IN Number(NumberEnd(s, p))

\* re.findall(r"\b(\d+\.?\d*)\s*%?", s)
RECURSIVE FindNumbers(_, _)
FindNumbers(s, i) ==
  LET Take(p, m) == <<SubSeq(s, p, m[1])>> \o FindNumbers(s, m[2] + 1)
      At(p) == IF p > Len(s) THEN <<>> ELSE Take(p, NumberMatch(s, p))
      Hit(p) == NumberMatch(s, p)[2] # 0
  IN At(IF i > Len(s) THEN Len(s) + 1
        ELSE CHOOSE p \in i..(Len(s) + 1) :
               (p = Len(s) + 1 \/ Hit(p)) /\ \A q \in i..(p - 1) : ~Hit(q))

\* A set of Decimals built from a sequence: a later element equal in value
\* to an earlier one is dropped (set insertion keeps the first).
RECURSIVE DecimalSet(_, _)
DecimalSet(ds, acc) ==
  IF ds = <<>> THEN acc
  ELSE DecimalSet(Tail(ds),
                  IF \E k \in 1..Len(acc) : DecimalEq(acc[k], Head(ds))
                  THEN acc ELSE Append(acc, Head(ds)))

DecimalZero == [neg |-> FALSE, coef |-> 0, scale |-> 0]
DecimalHundred == [neg |-> FALSE, coef |-> 100, scale |-> 0]

\* _extract_percentages without its exclusion of 0 and 100: C4 is checked
\* against it
ExtractAllPercentages(text) ==
  LET All(matches) == DecimalSet([k \in 1..Len(matches) |-> Decimal(matches[k])], <<>>)
  IN All(FindPercents(_visible_text(text), 1))

\* the members of the returned set, listed in order of first occurrence
_extract_percentages(text) ==
  LET Kept(ds) ==
        DecimalSet(SelectSeq(ds, LAMBDA d : /\ ~DecimalEq(d, DecimalZero)
                                           /\ ~DecimalEq(d, DecimalHundred)),
                   <<>>)
      Values(matches) == Kept([k \in 1..Len(matches) |-> Decimal(matches[k])])
      Matches(cleaned) == Values(FindPercents(cleaned, 1))
  IN Matches(_visible_text(text))

ComplianceFlag(flag_type, severity, location, description) ==
  [flag_type |-> flag_type, severity |-> severity, location |-> location,
   description |-> description]

\* getattr(claim, field), as the list of values _check_field_present walks
FieldValues(claim, field) == IF field = "qualifiers" THEN claim.qualifiers ELSE <<claim[field]>>

\* field.capitalize()
Capitalize(field) ==
  CASE field = "citation" -> "Citation"
    [] field = "qualifiers" -> "Qualifiers"
    [] field = "endpoint" -> "Endpoint"

\* The loop body of _check_field_present over the values vs still to visit;
\* lowered is html_content.lower().
RECURSIVE FieldLoop(_, _, _, _, _, _)
FieldLoop(lowered, vs, seen, field, flag_type, severity) ==
  IF vs = <<>> THEN <<>>
  ELSE LET v == Head(vs)
       IN IF v \in seen THEN FieldLoop(lowered, Tail(vs), seen, field, flag_type, severity)
          ELSE (IF ~Contains(lowered, Lower(v))
                THEN <<ComplianceFlag(flag_type, severity, v,
                                      <<Capitalize(field), " not found in HTML: ", v>>)>>
                ELSE <<>>)
               \o FieldLoop(lowered, Tail(vs), seen \cup {v}, field, flag_type, severity)

\* _check_field_present searching the visible text only: C7 is checked
\* against it
CheckFieldVisible(html_content, cs, field, flag_type, severity) ==
  FieldLoop(Lower(_visible_text(html_content)),
            Flatten([i \in 1..Len(cs) |-> FieldValues(cs[i], field)]),
            {}, field, flag_type, severity)

_check_field_present(html_content, cs, field, flag_type, severity) ==
  FieldLoop(Lower(html_content),
            Flatten([i \in 1..Len(cs) |-> FieldValues(cs[i], field)]),
            {}, field, flag_type, severity)

\* found, for one claim of check_numbers; visible and numbers (the findall
\* of the visible text) are computed once per call
StatisticFound(visible, numbers, stat) ==
  LET Found(norm, raw_num) ==
        \/ Contains(visible, raw_num)
        \/ Contains(visible, stat)
        \/ /\ norm # None
           /\ \E k \in 1..Len(numbers) : DecimalEq(_normalize_number(numbers[k]), norm)
  IN Found(_normalize_number(stat), Strip(RemoveChar(stat, "%")))

check_numbers(html_content, cs) ==
  LET Flags(visible, numbers) ==
        Flatten([i \in 1..Len(cs) |->
                   IF StatisticFound(visible, numbers, cs[i].statistic) THEN <<>>
                   ELSE <<ComplianceFlag("number_missing", "error", cs[i].statistic,
                                         <<"Source statistic ", cs[i].statistic,
                                           " not found in HTML">>)>>])
      Visible(visible) == Flags(visible, FindNumbers(visible, 1))
  IN Visible(_visible_text(html_content))

check_citations(html_content, cs) ==
  _check_field_present(html_content, cs, "citation", "citation_missing", "error")

\* known left empty: C3 is checked against it
NoKnownNumbers(cs) == {}

\* the statistics of the claims that normalize to a number
KnownNumbers(cs) ==
  {n \in {_normalize_number(cs[i].statistic) : i \in 1..Len(cs)} : n # None}

\* The flags of check_unexpected_numbers, listed by first occurrence of the
\* percentage in the markup; the code walks a set, in its hash order.
check_unexpected_numbers(html_content, cs) ==
  LET Flag(location) ==
        ComplianceFlag("unexpected_number", "error", location,
                       <<"Percentage ", location, " in HTML not found in source claims">>)
      Fresh(html_pcts, known) ==
        SelectSeq(html_pcts, LAMBDA pct : ~\E n \in known : DecimalEq(pct, n))
      Flags(fresh) == [k \in 1..Len(fresh) |-> Flag(DecimalStr(fresh[k]) \o <<"%">>)]
  IN Flags(Fresh(_extract_percentages(html_content), KnownNumbers(cs)))

check_qualifiers(html_content, cs) ==
  _check_field_present(html_content, cs, "qualifiers", "qualifier_missing", "warning")

check_endpoints(html_content, cs) ==
  _check_field_present(html_content, cs, "endpoint", "endpoint_missing", "warning")

-----------------------------------------------------------------------------
(* html.unescape (the standard library function the aggregator calls)      *)

\* characters that end a reference name: [^\t\n\f <&#;]
NameStop == {"\t", "\n", "\f", " ", "<", "&", "#", ";"}

\* html.entities.html5, restricted to the names the texts of the model can
\* spell: a key is the name as written after "&".
Html5 ==
  [k \in {<<"l", "t", ";">>, <<"l", "t">>, <<"g", "t", ";">>, <<"g", "t">>,
          <<"a", "m", "p", ";">>, <<"a", "m", "p">>, <<"l", "e", ";">>} |->
     CASE k \in {<<"l", "t", ";">>, <<"l", "t">>} -> "<"
       [] k \in {<<"g", "t", ";">>, <<"g", "t">>} -> ">"
       [] k \in {<<"a", "m", "p", ";">>, <<"a", "m", "p">>} -> "&"
       [] k = <<"l", "e", ";">> -> "U2264"]

\* One match of &([^\t\n\f <&#;]{1,32};?) starting at p: the index of its
\* last character, 0 when there is none.  (Numeric references, &#..., do not
\* occur in the texts of the model.)
CharrefEnd(s, p) ==
  IF p > Len(s) \/ s[p] # "&" THEN 0
  ELSE LET Ends(e) ==
             IF e <= p THEN 0
             ELSE IF e + 1 <= Len(s) /\ s[e + 1] = ";" THEN e + 1 ELSE e
           Name(stop) == Ends(IF stop - 1 > p + 32 THEN p + 32 ELSE stop - 1)
       IN Name(FirstIn(s, p + 1, NameStop))

\* _replace_charref for a named reference g (group 1 of the match)
_replace_charref(g) ==
  LET Replace(html5) ==
        IF g \in DOMAIN html5 THEN <<html5[g]>>
        ELSE LET xs == {x \in 2..(Len(g) - 1) : SubSeq(g, 1, x) \in DOMAIN html5}
             IN IF xs = {} THEN <<"&">> \o g
                ELSE LET x == CHOOSE y \in xs : \A z \in xs : z <= y
                     IN <<html5[SubSeq(g, 1, x)]>> \o SubSeq(g, x + 1, Len(g))
  IN Replace(Html5)

RECURSIVE UnescapeFrom(_, _)
UnescapeFrom(s, i) ==
  LET Cut(p, e) ==
        SubSeq(s, i, p - 1) \o _replace_charref(SubSeq(s, p + 1, e)) \o UnescapeFrom(s, e + 1)
      At(p) == Cut(p, CharrefEnd(s, p))
      From(starts) == IF starts = {} THEN SubSeq(s, i, Len(s)) ELSE At(Min(starts))
  IN From({p \in i..Len(s) : CharrefEnd(s, p) # 0})

\* no decoding at all: C9 is checked against it
Undecoded(s) == s

unescape(s) == UnescapeFrom(s, 1)

-----------------------------------------------------------------------------
(* pipeline/compliance.py: the aggregator                                  *)

ComplianceReport(passed, flags) == [passed |-> passed, flags |-> flags]

\* passed only when there is no flag at all: C1 is checked against it
NoFlags(all_flags) == all_flags = <<>>

\* passed = not any(f.severity == "error" for f in all_flags)
Passed(all_flags) == ~\E k \in 1..Len(all_flags) : all_flags[k].severity = "error"

\* What the five checkers return for the decoded markup, given the order
\* unexpected in which the flags of check_unexpected_numbers(decoded, claims)
\* came out of the set.
RunCheckers(decoded, cs, unexpected) ==
  [decoded |-> decoded,
   numbers |-> check_numbers(decoded, cs),
   citations |-> check_citations(decoded, cs),
   unexpected |-> unexpected,
   qualifiers |-> check_qualifiers(decoded, cs),
   endpoints |-> check_endpoints(decoded, cs)]

\* The report made of the flags found, in checker order.
Aggregate(found) ==
  LET Report(all_flags) == ComplianceReport(Passed(all_flags), all_flags)
  IN Report(found.numbers \o found.citations \o found.unexpected
            \o found.qualifiers \o found.endpoints)

\* every order a list may be in
Orderings(seq) ==
  {[k \in 1..Len(seq) |-> seq[f[k]]] : f \in Permutations(1..Len(seq))}

\* the reports run_programmatic_compliance may return
run_programmatic_compliance(html_content, cs) ==
  LET Reports(decoded) ==
        {Aggregate(RunCheckers(decoded, cs, u)) :
           u \in Orderings(check_unexpected_numbers(decoded, cs))}
  IN Reports(unescape(html_content))

-----------------------------------------------------------------------------
(* html.escape, which the renderers import as _esc                         *)

EscapeChar(c) ==
  CASE c = "&" -> <<"&", "a", "m", "p", ";">>
    [] c = "<" -> <<"&", "l", "t", ";">>
    [] c = ">" -> <<"&", "g", "t", ";">>
    [] c = "\"" -> <<"&", "q", "u", "o", "t", ";">>
    [] c = "'" -> <<"&", "#", "x", "2", "7", ";">>
    [] OTHER -> <<c>>

_esc(s) == Flatten([i \in 1..Len(s) |-> EscapeChar(s[i])])

-----------------------------------------------------------------------------
(* pipeline/templates.py.  The markup is spelled out as the code writes it, *)
(* except the style sheets (CSS, extra_css) and the legend and scales       *)
(* options of a chart, which are cut to an excerpt: they hold no claim data *)
(* and stand inside style and script elements.                              *)

COLORS ==
  <<<<"#", "0", "d", "9", "4", "8", "8">>, <<"#", "a", "8", "5", "5", "f", "7">>, <<"#", "e", "8", "7", "9", "a", "0">>, <<"#", "2", "d", "4", "a", "7", "a">>, <<"#", "5", "e", "e", "a", "d", "4">>,
    <<"#", "F", "3", "9", "C", "1", "2">>, <<"#", "E", "7", "4", "C", "3", "C">>, <<"#", "8", "E", "4", "4", "A", "D">>, <<"#", "2", "7", "A", "E", "6", "0">>, <<"#", "D", "3", "5", "4", "0", "0">>>>

ARM_BORDER_COLORS ==
  <<<<"#", "0", "d", "9", "4", "8", "8">>, <<"#", "2", "d", "4", "a", "7", "a">>, <<"#", "c", "0", "2", "6", "d", "3">>, <<"#", "7", "c", "3", "a", "e", "d">>, <<"#", "e", "8", "7", "9", "a", "0">>, <<"#", "F", "3", "9", "C", "1", "2">>>>

\* seq[i % len(seq)] for a 0-based i
Cycle(seq, i) == seq[(i % Len(seq)) + 1]

\* str.split(): the maximal runs of characters that are not whitespace
RECURSIVE SplitFrom(_, _)
SplitFrom(s, i) ==
  LET a == FirstNotIn(s, i, Whitespace)
  IN IF a > Len(s) THEN <<>>
     ELSE LET b == FirstIn(s, a, Whitespace)
          IN <<SubSeq(s, a, b - 1)>> \o SplitFrom(s, b)

Split(s) == SplitFrom(s, 1)

ClinicalData == <<"C", "l", "i", "n", "i", "c", "a", "l", " ", "D", "a", "t", "a">>

\* (an arm of whitespace only, which makes split()[0] raise, is in no claim
\* of the model)
_extract_drug_name(cs) ==
  IF cs = <<>> THEN ClinicalData
  ELSE LET arm == cs[1].treatment_arm
       IN IF arm # <<>> THEN Split(arm)[1] ELSE ClinicalData

\* the values from the last to the first, repeated as they are: C22 is
\* checked against it
LastFirst(seq) == [k \in 1..Len(seq) |-> seq[Len(seq) + 1 - k]]

\* list(dict.fromkeys(seq)): each value once, in order of first occurrence
RECURSIVE Unique(_)
Unique(seq) ==
  IF seq = <<>> THEN <<>>
  ELSE LET front == Unique(SubSeq(seq, 1, Len(seq) - 1))
           last == seq[Len(seq)]
       IN IF \E k \in 1..Len(front) : front[k] = last THEN front ELSE Append(front, last)

\* the values in an order that is not a function of the claims alone (the
\* iteration order of a set, which changes from one use to the next): C16 is
\* checked against it
UnorderedValues(cs, field) ==
  LET Ordered(seq) ==
        IF html = <<>> THEN [k \in 1..Len(seq) |-> seq[Len(seq) + 1 - k]] ELSE seq
  IN Ordered(Unique([i \in 1..Len(cs) |-> cs[i][field]]))

_unique_values(cs, field) == Unique([i \in 1..Len(cs) |-> cs[i][field]])

\* str.rstrip("%")
RECURSIVE RStripPercent(_)
RStripPercent(s) ==
  IF s # <<>> /\ s[Len(s)] = "%" THEN RStripPercent(SubSeq(s, 1, Len(s) - 1)) ELSE s

\* float(text), None where it raises ValueError.  A float that is a number
\* is kept as the decimal its text wrote: on the texts of the model float()
\* accepts what Decimal() accepts, and no value has more digits than a float
\* holds exactly.  The floats that are no number ("nan", "inf", "infinity" in
\* any letter case, signed or not) are [special |-> what json.dumps writes].
float(text) ==
  LET Signed(t) == t # <<>> /\ t[1] \in {"+", "-"}
      Special(t, body) ==
        IF body = <<"n", "a", "n">> THEN [special |-> <<"N", "a", "N">>]
        ELSE IF body \in {<<"i", "n", "f">>, <<"i", "n", "f", "i", "n", "i", "t", "y">>}
          THEN [special |-> (IF t[1] = "-" THEN <<"-">> ELSE <<>>)
                            \o <<"I", "n", "f", "i", "n", "i", "t", "y">>]
        ELSE Decimal(t)
      Parsed(t) == Special(t, Lower(IF Signed(t) THEN Tail(t) ELSE t))
  IN Parsed(Strip(text))

\* math.isfinite(val), for a val that is not None
IsFinite(val) == "special" \notin DOMAIN val

\* float(cleaned), None on ValueError
_parse_stat(stat) == float(RStripPercent(Strip(stat)))

_collect_qualifiers(cs) == Unique(Flatten([i \in 1..Len(cs) |-> cs[i].qualifiers]))

\* a.coef / 10^a.scale < b.coef / 10^b.scale, for decimals that are not negative
RECURSIVE Pow10(_)
Pow10(k) == IF k <= 0 THEN 1 ELSE 10 * Pow10(k - 1)

\* One of the unit words of the pattern, then \s+, then [\d.]+ : the number
\* text (group 1) of re.match(r"(?:Week|Month|Day|Year)\s+([\d.]+)", tp, re.I),
\* <<>> when the label does not match.
TimepointWords == <<<<"W", "e", "e", "k">>, <<"M", "o", "n", "t", "h">>, <<"D", "a", "y">>, <<"Y", "e", "a", "r">>>>

TimepointGroup(tp) ==
  LET Number(b, e) == IF e = b THEN <<>> ELSE SubSeq(tp, b, e - 1)
      Space(a, b) == IF b = a THEN <<>> ELSE Number(b, FirstNotIn(tp, b, Digit \cup {"."}))
      Word(a) == Space(a, FirstNotIn(tp, a, Whitespace))
      Words(ws) == IF ws = {} THEN <<>> ELSE Word(Len(TimepointWords[Min(ws)]) + 1)
  IN Words({k \in 1..Len(TimepointWords) : MatchAtCI(tp, 1, TimepointWords[k])})

\* order[word]
TimepointOrder(word) ==
  CASE word = <<"d", "a", "y">> -> 0
    [] word = <<"w", "e", "e", "k">> -> 1
    [] word = <<"m", "o", "n", "t", "h">> -> 2
    [] word = <<"y", "e", "a", "r">> -> 3
    [] OTHER -> 1

\* The key as [rank, num, scale], standing for (rank, num / 10^scale); None
\* where float(m.group(1)) raises ValueError.
\* a key that tells no label from another: C21 is checked against it
UnitBlindKey(tp) == [rank |-> 0, num |-> 0, scale |-> 0]

_sort_timepoint_key(tp) ==
  LET Key(val, word) ==
        IF val = None THEN None
        ELSE [rank |-> 0,
              num |-> TimepointOrder(word) * 1000 * Pow10(val.scale) + val.coef,
              scale |-> val.scale]
      Matched(g) ==
        IF g = <<>> THEN [rank |-> 1, num |-> 0, scale |-> 0]
        ELSE Key(Decimal(g), Lower(Split(tp)[1]))
  IN Matched(TimepointGroup(tp))

\* tuple comparison of two keys, a < b
KeyLess(a, b) ==
  \/ a.rank < b.rank
  \/ a.rank = b.rank /\ a.num * Pow10(b.scale) < b.num * Pow10(a.scale)

\* sorted(tps, key=_sort_timepoint_key): stable, by insertion
RECURSIVE SortTimepoints(_)
SortTimepoints(tps) ==
  LET Insert(front, x, at) ==
        SubSeq(front, 1, at - 1) \o <<x>> \o SubSeq(front, at, Len(front))
      Place(front, x, after) ==
        Insert(front, x, IF after = {} THEN Len(front) + 1 ELSE Min(after))
      Keyed(front, keys, x, key) ==
        Place(front, x, {k \in 1..Len(front) : KeyLess(key, keys[k])})
      Sorted(front, x) ==
        Keyed(front, [k \in 1..Len(front) |-> _sort_timepoint_key(front[k])],
              x, _sort_timepoint_key(x))
  IN IF tps = <<>> THEN <<>>
     ELSE Sorted(SortTimepoints(SubSeq(tps, 1, Len(tps) - 1)), tps[Len(tps)])

\* The dict of _group_by_keys as the sequence of its items, in insertion
\* order: [key |-> <<v1, v2>>, group |-> the claims with that key].
_group_by_keys(cs, field1, field2) ==
  LET Groups(keys) ==
        [k \in 1..Len(keys) |->
           [key |-> keys[k],
            group |-> SelectSeq(cs, LAMBDA c : <<c[field1], c[field2]>> = keys[k])]]
  IN Groups(Unique([i \in 1..Len(cs) |-> <<cs[i][field1], cs[i][field2]>>]))

\* sep.join(parts)
RECURSIVE Join(_, _)
Join(sep, parts) ==
  IF parts = <<>> THEN <<>>
  ELSE IF Len(parts) = 1 THEN parts[1]
  ELSE parts[1] \o sep \o Join(sep, Tail(parts))

-----------------------------------------------------------------------------
(* json.dumps, for the values the renderers pass                           *)

JsonChar(c) ==
  CASE c = "\"" -> <<"\\", "\"">>
    [] c = "\\" -> <<"\\", "\\">>
    [] c = "\n" -> <<"\\", "n">>
    [] c = "\t" -> <<"\\", "t">>
    [] c = "U2264" -> <<"\\", "u", "2", "2", "6", "4">>
    [] c = "U2014" -> <<"\\", "u", "2", "0", "1", "4">>
    [] OTHER -> <<c>>

\* json.dumps(s) of a str (ensure_ascii)
JsonString(s) == <<"\"">> \o Flatten([i \in 1..Len(s) |-> JsonChar(s[i])]) \o <<"\"">>

\* json.dumps of a list whose items are already encoded
JsonList(items) == <<"[">> \o Join(<<",", " ">>, items) \o <<"]">>

\* repr(float): the value with the zeros at the end of its fraction dropped,
\* one digit at least after the point
FloatRepr(d) ==
  LET Repr(c) ==
        (IF d.neg THEN <<"-">> ELSE <<>>)
        \o DecimalStr(c) \o (IF c.scale = 0 THEN <<".", "0">> ELSE <<>>)
  IN IF IsFinite(d) THEN Repr(Canon([d EXCEPT !.neg = FALSE])) ELSE d.special

\* json.dumps(val if val is not None else 0)
JsonValue(val) == IF val = None THEN <<"0">> ELSE FloatRepr(val)

-----------------------------------------------------------------------------
(* pipeline/templates.py: the parts the renderers share                    *)

_build_chart_script(canvas_id, chart_type, labels_json, datasets_json, title) ==
  LET legend_opt == <<"l", "e", "g", "e", "n", "d", ":", " ", "{", " ", "l", "a", "b", "e", "l", "s", ":",
                    " ", "{", " ", "u", "s", "e", "P", "o", "i", "n", "t", "S", "t",
                    "y", "l", "e", ":", " ", "t", "r", "u", "e", " ", "}", " ", "}">>
      Script(plugins, scales) ==
        <<"\n", "n", "e", "w", " ", "C", "h", "a", "r", "t", "(", "d", "o", "c", "u", "m", "e",
        "n", "t", ".", "g", "e", "t", "E", "l", "e", "m", "e", "n", "t", "B", "y", "I",
        "d", "(", "'">> \o canvas_id \o <<"'", ")", ",", " ", "{", "\n", " ", " ", "t", "y", "p", "e", ":", " ", "'">>
        \o chart_type \o <<"'", ",", "\n", " ", " ", "d", "a", "t", "a", ":", " ", "{", " ", "l", "a", "b", "e",
                         "l", "s", ":", " ">> \o labels_json \o <<",", " ", "d", "a", "t", "a", "s", "e", "t", "s", ":", " ">>
        \o datasets_json \o <<" ", "}", ",", "\n", " ", " ", "o", "p", "t", "i", "o", "n", "s", ":", " ", "{", " ",
                            "r", "e", "s", "p", "o", "n", "s", "i", "v", "e", ":", " ",
                            "t", "r", "u", "e", ",", " ">> \o plugins \o <<",", " ">>
        \o scales \o <<" ", "}", "\n", "}", ")", ";">>
      Options(title_opt) ==
        Script(<<"p", "l", "u", "g", "i", "n", "s", ":", " ", "{", " ">> \o title_opt
               \o (IF title_opt # <<>> THEN <<",", " ">> ELSE <<>>) \o legend_opt \o <<" ", "}">>,
               IF chart_type = <<"b", "a", "r">>
               THEN <<"s", "c", "a", "l", "e", "s", ":", " ", "{", " ", "x", ":", " ", "{", " ", "g", "r",
                    "i", "d", ":", " ", "{", " ", "d", "i", "s", "p", "l", "a", "y",
                    ":", " ", "f", "a", "l", "s", "e", " ", "}", " ", "}", " ", "}">>
               ELSE <<"s", "c", "a", "l", "e", "s", ":", " ", "{", " ", "x", ":", " ", "{", " ", "g", "r",
                    "i", "d", ":", " ", "{", " ", "c", "o", "l", "o", "r", ":", " ",
                    "'", "r", "g", "b", "a", "(", "1", "4", "8", ",", "1", "6", "3",
                    ",", "1", "8", "4", ",", "0", ".", "0", "8", ")", "'", " ", "}",
                    " ", "}", " ", "}">>)
  IN Options(IF title # <<>>
             THEN <<"t", "i", "t", "l", "e", ":", " ", "{", " ", "d", "i", "s", "p", "l", "a", "y", ":",
                  " ", "t", "r", "u", "e", ",", " ", "t", "e", "x", "t", ":", " ">> \o JsonString(title) \o <<" ", "}">>
             ELSE <<>>)

_build_data_table(cs) ==
  LET row(c) == <<"<", "t", "r", ">", "<", "t", "d", ">">> \o _esc(c.treatment_arm) \o <<"<", "/", "t", "d", ">", "<", "t", "d", ">">> \o _esc(c.statistic)
                \o <<"<", "/", "t", "d", ">">> \o <<"<", "t", "d", ">">> \o _esc(c.context) \o <<"<", "/", "t", "d", ">", "<", "t", "d", ">">>
                \o _esc(c.sample_size) \o <<"<", "/", "t", "d", ">", "<", "/", "t", "r", ">", "\n">>
  IN <<"<", "t", "a", "b", "l", "e", ">", "<", "t", "h", "e", "a", "d", ">", "<", "t", "r",
     ">", "<", "t", "h", ">", "T", "r", "e", "a", "t", "m", "e", "n", "t", " ", "A",
     "r", "m", "<", "/", "t", "h", ">", "<", "t", "h", ">", "S", "t", "a", "t", "i",
     "s", "t", "i", "c", "<", "/", "t", "h", ">">>
     \o <<"<", "t", "h", ">", "C", "o", "n", "t", "e", "x", "t", "<", "/", "t", "h", ">", "<",
        "t", "h", ">", "S", "a", "m", "p", "l", "e", " ", "S", "i", "z", "e", "<", "/",
        "t", "h", ">", "<", "/", "t", "r", ">", "<", "/", "t", "h", "e", "a", "d", ">">>
     \o <<"<", "t", "b", "o", "d", "y", ">">> \o Flatten([i \in 1..Len(cs) |-> row(cs[i])]) \o <<"<", "/", "t", "b", "o", "d", "y", ">", "<", "/", "t", "a", "b", "l", "e", ">">>

_build_citations_section(cs) ==
  LET Section(citations) ==
        <<"<", "h", "2", ">", "C", "i", "t", "a", "t", "i", "o", "n", "s", "<", "/", "h", "2",
        ">">>
        \o Flatten([k \in 1..Len(citations) |->
                      <<"<", "p", " ", "c", "l", "a", "s", "s", "=", "\"", "c", "i", "t", "a", "t", "i", "o",
                      "n", "\"", ">">> \o _esc(citations[k]) \o <<"<", "/", "p", ">">>])
  IN Section(_unique_values(cs, "citation"))

_build_qualifiers_section(cs) ==
  LET Section(qualifiers) ==
        IF qualifiers = <<>> THEN <<>>
        ELSE <<"<", "h", "2", ">", "Q", "u", "a", "l", "i", "f", "i", "e", "r", "s", "<", "/", "h",
             "2", ">", "<", "d", "i", "v", ">">>
             \o Flatten([k \in 1..Len(qualifiers) |->
                           <<"<", "s", "p", "a", "n", " ", "c", "l", "a", "s", "s", "=", "\"", "q", "u", "a", "l",
                           "i", "f", "i", "e", "r", "\"", ">">> \o _esc(qualifiers[k]) \o <<"<", "/", "s", "p", "a", "n", ">">>])
             \o <<"<", "/", "d", "i", "v", ">">>
  IN Section(_collect_qualifiers(cs))

_build_footer(cs) ==
  <<"<", "d", "i", "v", " ", "c", "l", "a", "s", "s", "=", "\"", "f", "o", "o", "t", "e",
  "r", "-", "s", "e", "c", "t", "i", "o", "n", "\"", ">">> \o _build_citations_section(cs)
  \o _build_qualifiers_section(cs) \o <<"<", "/", "d", "i", "v", ">">>

\* excerpts of the style sheet of _html_skeleton, before and after extra_css
SkeletonCss ==
  <<"\n", " ", " ", " ", " ", " ", " ", " ", " ", ":", "r", "o", "o", "t", " ", "{",
  "\n", " ", " ", " ", " ", " ", " ", " ", " ", " ", " ", " ", " ", "-", "-", "g", "r",
  "a", "d", "i", "e", "n", "t", "-", "b", "g", ":", " ", "l", "i", "n", "e", "a", "r",
  "-", "g", "r", "a", "d", "i", "e", "n", "t", "(", "1", "3", "5", "d", "e", "g", ",",
  " ", "#", "f", "0", "e", "6", "f", "f", " ", "0", "%", ",", " ", "#", "e", "8", "f",
  "0", "f", "e", " ", "3", "0", "%", ",", " ", "#", "f", "c", "e", "7", "f", "3", " ",
  "6", "0", "%", ",", " ", "#", "e", "0", "f", "2", "f", "e", " ", "1", "0", "0", "%",
  ")", ";", "\n", " ", " ", " ", " ", " ", " ", " ", " ", "}", "\n", " ", " ", " ",
  " ", " ", " ", " ", " ", "t", "a", "b", "l", "e", " ", "{", "\n", " ", " ", " ", " ",
  " ", " ", " ", " ", " ", " ", " ", " ", "w", "i", "d", "t", "h", ":", " ", "1", "0",
  "0", "%", ";", "\n", " ", " ", " ", " ", " ", " ", " ", " ", "}", "\n", "\n", " ",
  " ", " ", " ", " ", " ", " ", " ">>

SkeletonCssPrint == <<"\n", "\n", " ", " ", " ", " ", " ", " ", " ", " ", "@", "m", "e", "d", "i", "a",
                    " ", "p", "r", "i", "n", "t", " ", "{", " ", "b", "o", "d", "y",
                    " ", "{", " ", "b", "a", "c", "k", "g", "r", "o", "u", "n", "d",
                    ":", " ", "w", "h", "i", "t", "e", ";", " ", "}", " ", "}", "\n",
                    " ", " ", " ", " ">>

\* a renderer that returns its fragment without the skeleton: C17 is checked
\* against it
FragmentOnly(title, body, script, include_chart_js, extra_css, drug_name, variant_label) ==
  body \o script

_html_skeleton(title, body, script, include_chart_js, extra_css, drug_name, variant_label) ==
  LET chart_js_tag ==
        IF include_chart_js
        THEN <<"\n", " ", " ", " ", " ", "<", "s", "c", "r", "i", "p", "t", " ", "s", "r", "c", "=",
             "\"", "h", "t", "t", "p", "s", ":", "/", "/", "c", "d", "n", ".", "j",
             "s", "d", "e", "l", "i", "v", "r", ".", "n", "e", "t", "/", "n", "p", "m",
             "/", "c", "h", "a", "r", "t", ".", "j", "s", "\"", ">", "<", "/", "s",
             "c", "r", "i", "p", "t", ">">>
        ELSE <<>>
      subtitle_html ==
        IF variant_label # <<>>
        THEN <<"<", "d", "i", "v", " ", "c", "l", "a", "s", "s", "=", "\"", "s", "u", "b", "t", "i",
             "t", "l", "e", "\"", ">">> \o _esc(variant_label) \o <<"<", "/", "d", "i", "v", ">">>
        ELSE <<>>
  IN <<"<", "!", "D", "O", "C", "T", "Y", "P", "E", " ", "h", "t", "m", "l", ">", "\n", "<",
     "h", "t", "m", "l", " ", "l", "a", "n", "g", "=", "\"", "e", "n", "\"", ">", "\n",
     "<", "h", "e", "a", "d", ">", "\n", " ", " ", " ", " ", "<", "m", "e", "t", "a",
     " ", "c", "h", "a", "r", "s", "e", "t", "=", "\"", "U", "T", "F", "-", "8", "\"",
     ">", "\n">>
     \o <<" ", " ", " ", " ", "<", "m", "e", "t", "a", " ", "n", "a", "m", "e", "=", "\"", "v",
        "i", "e", "w", "p", "o", "r", "t", "\"", " ", "c", "o", "n", "t", "e", "n",
        "t", "=", "\"", "w", "i", "d", "t", "h", "=", "d", "e", "v", "i", "c", "e",
        "-", "w", "i", "d", "t", "h", ",", " ", "i", "n", "i", "t", "i", "a", "l", "-",
        "s", "c", "a", "l", "e", "=", "1", ".", "0", "\"", ">", "\n">>
     \o <<" ", " ", " ", " ", "<", "t", "i", "t", "l", "e", ">">> \o title \o <<"<", "/", "t", "i", "t", "l", "e", ">">> \o chart_js_tag \o <<"\n", " ", " ", " ", " ", "<", "s", "t", "y", "l", "e", ">">>
     \o SkeletonCss \o extra_css \o SkeletonCssPrint
     \o <<"<", "/", "s", "t", "y", "l", "e", ">", "\n", "<", "/", "h", "e", "a", "d", ">",
        "\n", "<", "b", "o", "d", "y", ">", "\n", " ", " ", " ", " ", "<", "d", "i",
        "v", " ", "c", "l", "a", "s", "s", "=", "\"", "p", "a", "g", "e", "-", "h",
        "e", "a", "d", "e", "r", "\"", ">", "\n", " ", " ", " ", " ", " ", " ", " ",
        " ", "<", "h", "1", ">">>
     \o _esc(drug_name) \o <<"<", "/", "h", "1", ">", "\n", " ", " ", " ", " ", " ", " ", " ", " ">> \o subtitle_html
     \o <<"\n", " ", " ", " ", " ", "<", "/", "d", "i", "v", ">", "\n", " ", " ", " ", " ",
        "<", "d", "i", "v", " ", "c", "l", "a", "s", "s", "=", "\"", "c", "o", "n",
        "t", "a", "i", "n", "e", "r", "\"", ">", "\n", " ", " ", " ", " ", " ", " ",
        " ", " ">> \o body
     \o <<"\n", " ", " ", " ", " ", "<", "/", "d", "i", "v", ">", "\n", " ", " ", " ", " ">> \o script \o <<"\n", "<", "/", "b", "o", "d", "y", ">", "\n", "<", "/", "h", "t", "m", "l", ">">>

-----------------------------------------------------------------------------
(* pipeline/templates.py: the five renderers                                *)

EmDash == <<" ", "U2014", " ">>

ChartId(chart_idx) == <<"c", "h", "a", "r", "t", "-">> \o NatStr(chart_idx)

\* json.dumps of one dataset of a bar chart
BarDataset(arm, val, color) ==
  <<"{", "\"", "l", "a", "b", "e", "l", "\"", ":", " ">> \o JsonString(arm) \o <<",", " ", "\"", "d", "a", "t", "a", "\"", ":", " ", "[">> \o JsonValue(val)
  \o <<"]", ",", " ", "\"", "b", "a", "c", "k", "g", "r", "o", "u", "n", "d", "C", "o", "l",
     "o", "r", "\"", ":", " ">> \o JsonString(color)
  \o <<",", " ", "\"", "b", "o", "r", "d", "e", "r", "R", "a", "d", "i", "u", "s", "\"",
     ":", " ", "6", ",", " ", "\"", "b", "o", "r", "d", "e", "r", "S", "k", "i", "p",
     "p", "e", "d", "\"", ":", " ", "f", "a", "l", "s", "e", "}">>

\* json.dumps of the datasets built from zip(arms, values, colors)
BarDatasets(cs) ==
  LET Zip(arms, values) ==
        JsonList([i \in 1..Len(arms) |->
                    BarDataset(arms[i], values[i], Cycle(COLORS, i - 1))])
  IN Zip(_unique_values(cs, "treatment_arm"),
         [i \in 1..Len(cs) |-> _parse_stat(cs[i].statistic)])

render_grouped_bar(cs) ==
  LET card(canvas_id, timepoint, endpoint, group) ==
        <<"<", "d", "i", "v", " ", "c", "l", "a", "s", "s", "=", "\"", "c", "a", "r", "d",
        "\"", ">", "<", "h", "2", ">">> \o _esc(endpoint) \o EmDash \o _esc(timepoint)
        \o <<"<", "/", "h", "2", ">">> \o <<"<", "c", "a", "n", "v", "a", "s", " ", "i", "d", "=", "\"">> \o canvas_id \o <<"\"", ">", "<", "/", "c", "a", "n", "v", "a", "s", ">">>
        \o _build_data_table(group) \o <<"<", "/", "d", "i", "v", ">">>
      chart(canvas_id, timepoint, endpoint, group) ==
        _build_chart_script(canvas_id, <<"b", "a", "r">>, JsonList(<<JsonString(endpoint)>>),
                            BarDatasets(group), endpoint \o EmDash \o timepoint)
      Document(drug_name, groups) ==
        _html_skeleton(
          drug_name \o <<" ", "E", "f", "f", "i", "c", "a", "c", "y", " ", "b", "y", " ", "S", "u", "b", "g",
                       "r", "o", "u", "p">>,
          Join(<<"\n">>,
               [k \in 1..Len(groups) |->
                  card(ChartId(k - 1), groups[k].key[1], groups[k].key[2], groups[k].group)]
               \o <<_build_footer(cs)>>),
          <<"<", "s", "c", "r", "i", "p", "t", ">">>
          \o Join(<<"\n">>,
                  [k \in 1..Len(groups) |->
                     chart(ChartId(k - 1), groups[k].key[1], groups[k].key[2],
                           groups[k].group)])
          \o <<"<", "/", "s", "c", "r", "i", "p", "t", ">">>,
          TRUE, <<>>, drug_name, <<"E", "f", "f", "i", "c", "a", "c", "y", " ", "b", "y", " ", "S", "u", "b", "g", "r",
                                 "o", "u", "p">>)
  IN Document(_extract_drug_name(cs), _group_by_keys(cs, "timepoint", "endpoint"))

_render_timeline_as_bar(cs) ==
  LET Document(drug_name, endpoint) ==
        _html_skeleton(
          drug_name \o <<" ", "R", "e", "s", "p", "o", "n", "s", "e", " ", "O", "v", "e", "r", " ", "T", "i",
                       "m", "e">>,
          <<"<", "d", "i", "v", " ", "c", "l", "a", "s", "s", "=", "\"", "c", "a", "r", "d",
          "\"", ">", "<", "h", "2", ">">> \o _esc(endpoint) \o <<"<", "/", "h", "2", ">">>
          \o <<"<", "c", "a", "n", "v", "a", "s", " ", "i", "d", "=", "\"", "c", "h", "a", "r", "t",
             "-", "0", "\"", ">", "<", "/", "c", "a", "n", "v", "a", "s", ">">>
          \o _build_data_table(cs) \o <<"<", "/", "d", "i", "v", ">">> \o _build_footer(cs),
          <<"<", "s", "c", "r", "i", "p", "t", ">">>
          \o _build_chart_script(<<"c", "h", "a", "r", "t", "-", "0">>, <<"b", "a", "r">>, JsonList(<<JsonString(endpoint)>>),
                                 BarDatasets(cs), <<>>)
          \o <<"\n", "<", "/", "s", "c", "r", "i", "p", "t", ">">>,
          TRUE, <<>>, drug_name, <<"R", "e", "s", "p", "o", "n", "s", "e", " ", "O", "v", "e", "r", " ", "T", "i", "m",
                                 "e">>)
  IN Document(_extract_drug_name(cs), IF cs # <<>> THEN cs[1].endpoint ELSE <<"D", "a", "t", "a">>)

\* json.dumps of one dataset of a line chart
LineDataset(arm, data, color) ==
  <<"{", "\"", "l", "a", "b", "e", "l", "\"", ":", " ">> \o JsonString(arm) \o <<",", " ", "\"", "d", "a", "t", "a", "\"", ":", " ">> \o JsonList(data)
  \o <<",", " ", "\"", "b", "o", "r", "d", "e", "r", "C", "o", "l", "o", "r", "\"", ":",
     " ">> \o JsonString(color) \o <<",", " ", "\"", "b", "a", "c", "k", "g", "r", "o", "u", "n", "d", "C", "o", "l", "o",
                                                   "r", "\"", ":", " ">>
  \o JsonString(color)
  \o <<",", " ", "\"", "f", "i", "l", "l", "\"", ":", " ", "f", "a", "l", "s", "e", ",",
     " ", "\"", "t", "e", "n", "s", "i", "o", "n", "\"", ":", " ", "0", ".", "3", ",",
     " ", "\"", "p", "o", "i", "n", "t", "R", "a", "d", "i", "u", "s", "\"", ":", " ",
     "5", ",", " ", "\"", "p", "o", "i", "n", "t", "H", "o", "v", "e", "r", "R", "a",
     "d", "i", "u", "s", "\"", ":", " ", "7", "}">>

\* tp_map.get(tp, 0) if tp_map.get(tp) is not None else 0, encoded: the
\* statistic of the last claim of the group at that timepoint
TimepointValue(group, tp) ==
  LET Value(at) ==
        IF at = {} THEN <<"0">>
        ELSE JsonValue(_parse_stat(group[CHOOSE i \in at : \A j \in at : j <= i].statistic))
  IN Value({i \in 1..Len(group) : group[i].timepoint = tp})

render_timeline(cs) ==
  LET Datasets(ep_groups, sorted_tps) ==
        JsonList([i \in 1..Len(ep_groups) |->
                    LineDataset(ep_groups[i].key[1],
                                [t \in 1..Len(sorted_tps) |->
                                   TimepointValue(ep_groups[i].group, sorted_tps[t])],
                                Cycle(COLORS, i - 1))])
      card(canvas_id, ep) ==
        <<"<", "d", "i", "v", " ", "c", "l", "a", "s", "s", "=", "\"", "c", "a", "r", "d",
        "\"", ">", "<", "h", "2", ">">> \o _esc(ep) \o <<"<", "/", "h", "2", ">">>
        \o <<"<", "c", "a", "n", "v", "a", "s", " ", "i", "d", "=", "\"">> \o canvas_id \o <<"\"", ">", "<", "/", "c", "a", "n", "v", "a", "s", ">">>
        \o _build_data_table(SelectSeq(cs, LAMBDA c : c.endpoint = ep))
        \o <<"<", "/", "d", "i", "v", ">">>
      chart(canvas_id, ep, groups, sorted_tps) ==
        _build_chart_script(canvas_id, <<"l", "i", "n", "e">>,
                            JsonList([t \in 1..Len(sorted_tps) |-> JsonString(sorted_tps[t])]),
                            Datasets(SelectSeq(groups, LAMBDA g : g.key[2] = ep), sorted_tps),
                            ep)
      Document(drug_name, groups, sorted_tps, endpoints) ==
        _html_skeleton(
          drug_name \o <<" ", "R", "e", "s", "p", "o", "n", "s", "e", " ", "O", "v", "e", "r", " ", "T", "i",
                       "m", "e">>,
          Join(<<"\n">>,
               [k \in 1..Len(endpoints) |-> card(ChartId(k - 1), endpoints[k])]
               \o <<_build_footer(cs)>>),
          <<"<", "s", "c", "r", "i", "p", "t", ">">>
          \o Join(<<"\n">>,
                  [k \in 1..Len(endpoints) |->
                     chart(ChartId(k - 1), endpoints[k], groups, sorted_tps)])
          \o <<"<", "/", "s", "c", "r", "i", "p", "t", ">">>,
          TRUE, <<>>, drug_name, <<"R", "e", "s", "p", "o", "n", "s", "e", " ", "O", "v", "e", "r", " ", "T", "i", "m",
                                 "e">>)
      Timepoints(timepoints) ==
        IF Len(timepoints) <= 1 THEN _render_timeline_as_bar(cs)
        ELSE Document(_extract_drug_name(cs),
                      _group_by_keys(cs, "treatment_arm", "endpoint"),
                      SortTimepoints(timepoints),
                      _unique_values(cs, "endpoint"))
  IN Timepoints(_unique_values(cs, "timepoint"))

\* excerpt of the extra_css of render_spotlight_cards
SpotlightCss == <<"\n", " ", " ", " ", " ", " ", " ", " ", " ", ".", "s", "t", "a", "t", "-", "e", "n",
                "d", "p", "o", "i", "n", "t", " ", "{", "\n", " ", " ", " ", " ", " ",
                " ", " ", " ", " ", " ", " ", " ", "w", "i", "d", "t", "h", ":", " ",
                "1", "0", "0", "%", ";", "\n", " ", " ", " ", " ", " ", " ", " ", " ",
                "}", "\n", " ", " ", " ", " ">>

render_spotlight_cards(cs) ==
  LET stat_item(c) ==
        <<"<", "d", "i", "v", " ", "c", "l", "a", "s", "s", "=", "\"", "s", "t", "a", "t", "-",
        "r", "o", "w", "\"", ">">>
        \o <<"<", "s", "p", "a", "n", " ", "c", "l", "a", "s", "s", "=", "\"", "s", "t", "a", "t",
           "-", "l", "a", "b", "e", "l", "\"", ">">> \o _esc(c.treatment_arm) \o <<"<", "/", "s", "p", "a", "n", ">">>
        \o <<"<", "s", "p", "a", "n", " ", "c", "l", "a", "s", "s", "=", "\"", "s", "t", "a", "t",
           "-", "v", "a", "l", "u", "e", "\"", ">">> \o _esc(c.statistic) \o <<"<", "/", "s", "p", "a", "n", ">">>
        \o <<"<", "s", "p", "a", "n", " ", "c", "l", "a", "s", "s", "=", "\"", "s", "t", "a", "t",
           "-", "e", "n", "d", "p", "o", "i", "n", "t", "\"", ">">> \o _esc(c.endpoint) \o EmDash
        \o _esc(c.timepoint) \o <<"<", "/", "s", "p", "a", "n", ">">>
        \o <<"<", "/", "d", "i", "v", ">">>
      card(idx, ctx, ctx_claims, hero_claim) ==
        <<"<", "d", "i", "v", " ", "c", "l", "a", "s", "s", "=", "\"", "s", "p", "o", "t", "l",
        "i", "g", "h", "t", "-", "c", "a", "r", "d", "\"", " ", "s", "t", "y", "l",
        "e", "=", "\"", "b", "o", "r", "d", "e", "r", "-", "l", "e", "f", "t", ":",
        " ", "4", "p", "x", " ", "s", "o", "l", "i", "d", " ">>
        \o Cycle(ARM_BORDER_COLORS, idx) \o <<";", "\"", ">">>
        \o <<"<", "d", "i", "v", " ", "c", "l", "a", "s", "s", "=", "\"", "s", "p", "o", "t", "l",
           "i", "g", "h", "t", "-", "h", "e", "r", "o", "-", "s", "t", "a", "t", "\"",
           ">">> \o _esc(hero_claim.statistic) \o <<"<", "/", "d", "i", "v", ">">>
        \o <<"<", "d", "i", "v", " ", "c", "l", "a", "s", "s", "=", "\"", "s", "p", "o", "t", "l",
           "i", "g", "h", "t", "-", "s", "u", "b", "t", "i", "t", "l", "e", "\"", ">">> \o _esc(hero_claim.treatment_arm)
        \o <<"<", "/", "d", "i", "v", ">">>
        \o <<"<", "h", "3", ">">> \o _esc(ctx) \o <<"<", "/", "h", "3", ">">>
        \o Flatten([i \in 1..Len(ctx_claims) |-> stat_item(ctx_claims[i])])
        \o <<"<", "/", "d", "i", "v", ">">>
      context_card(idx, ctx, ctx_claims) == card(idx, ctx, ctx_claims, ctx_claims[1])
      Document(drug_name, contexts) ==
        _html_skeleton(
          drug_name \o <<" ", "C", "l", "i", "n", "i", "c", "a", "l", " ", "S", "p", "o", "t", "l", "i", "g",
                       "h", "t">>,
          <<"<", "d", "i", "v", " ", "c", "l", "a", "s", "s", "=", "\"", "s", "p", "o", "t", "l",
          "i", "g", "h", "t", "-", "g", "r", "i", "d", "\"", ">">>
          \o Flatten([k \in 1..Len(contexts) |->
                        context_card(k - 1, contexts[k],
                                     SelectSeq(cs, LAMBDA c : c.context = contexts[k]))])
          \o <<"<", "/", "d", "i", "v", ">">> \o _build_footer(cs),
          <<>>, FALSE, SpotlightCss, drug_name, <<"C", "l", "i", "n", "i", "c", "a", "l", " ", "S", "p", "o", "t", "l", "i", "g", "h",
                                                "t">>)
  IN Document(_extract_drug_name(cs), _unique_values(cs, "context"))

Max(S) == CHOOSE x \in S : \A y \in S : y <= x

\* a parsed statistic as an integer number of 10^-scale
Scaled(d, scale) == (IF d.neg THEN -1 ELSE 1) * d.coef * Pow10(scale - d.scale)

\* min_val, max_val and val_range of render_heatmap, as integer numbers of
\* 10^-scale, scale being the longest fraction among the statistics
HeatRange(cs) ==
  LET Range(scale, min_val, max_val) ==
        [scale |-> scale, min_val |-> min_val, max_val |-> max_val,
         val_range |-> IF max_val # min_val THEN max_val - min_val ELSE Pow10(scale)]
      Ints(all_vals, scale, ints) ==
        Range(scale,
              IF all_vals # <<>> THEN Min(ints) ELSE 0,
              IF all_vals # <<>> THEN Max(ints) ELSE Pow10(scale))
      AtScale(all_vals, scale) ==
        Ints(all_vals, scale, {Scaled(all_vals[i], scale) : i \in 1..Len(all_vals)})
      Values(all_vals) ==
        AtScale(all_vals,
                IF all_vals = <<>> THEN 0
                ELSE Max({all_vals[i].scale : i \in 1..Len(all_vals)}))
  IN Values(SelectSeq([i \in 1..Len(cs) |-> _parse_stat(cs[i].statistic)],
                      LAMBDA v : v # None))

\* int(a + (b - a) * t) for t = n / val_range, in exact arithmetic (the code
\* computes in floats; the two agree on the statistics of the model)
Blend(a, b, n, val_range) == (a * val_range + (b - a) * n) \div val_range

_cell_color(stat_str, range) ==
  LET Rgb(n) ==
        <<"r", "g", "b", "(">> \o NatStr(Blend(224, 26, n, range.val_range)) \o <<",">>
        \o NatStr(Blend(242, 43, n, range.val_range)) \o <<",">>
        \o NatStr(Blend(254, 74, n, range.val_range)) \o <<")">>
      Colour(v) ==
        IF v = None THEN <<"#", "F", "F", "F", "F", "F", "F">> ELSE Rgb(Scaled(v, range.scale) - range.min_val)
  IN Colour(_parse_stat(stat_str))

\* t > 0.6
_cell_text_color(stat_str, range) ==
  LET Colour(v) ==
        IF v = None THEN <<"#", "1", "e", "2", "9", "3", "b">>
        ELSE IF 10 * (Scaled(v, range.scale) - range.min_val) > 6 * range.val_range
             THEN <<"#", "f", "f", "f", "f", "f", "f">> ELSE <<"#", "1", "a", "2", "b", "4", "a">>
  IN Colour(_parse_stat(stat_str))

\* excerpt of the extra_css of render_heatmap
HeatmapCss ==
  <<"\n", " ", " ", " ", " ", " ", " ", " ", " ", ".", "l", "e", "g", "e", "n", "d", "-",
  "b", "a", "r", " ", "{", "\n", " ", " ", " ", " ", " ", " ", " ", " ", " ", " ", " ",
  " ", "b", "a", "c", "k", "g", "r", "o", "u", "n", "d", ":", " ", "l", "i", "n", "e",
  "a", "r", "-", "g", "r", "a", "d", "i", "e", "n", "t", "(", "9", "0", "d", "e", "g",
  ",", " ", "#", "e", "0", "f", "2", "f", "e", " ", "0", "%", ",", " ", "#", "0", "d",
  "9", "4", "8", "8", " ", "5", "0", "%", ",", " ", "#", "1", "a", "2", "b", "4", "a",
  " ", "1", "0", "0", "%", ")", ";", "\n", " ", " ", " ", " ", " ", " ", " ", " ", "}",
  "\n", " ", " ", " ", " ">>

render_heatmap(cs) ==
  LET color_legend ==
        <<"<", "d", "i", "v", " ", "c", "l", "a", "s", "s", "=", "\"", "c", "o", "l", "o", "r",
        "-", "l", "e", "g", "e", "n", "d", "\"", ">">>
        \o <<"<", "s", "p", "a", "n", " ", "c", "l", "a", "s", "s", "=", "\"", "l", "e", "g", "e",
           "n", "d", "-", "l", "a", "b", "e", "l", "\"", ">", "L", "o", "w", "<", "/",
           "s", "p", "a", "n", ">">>
        \o <<"<", "d", "i", "v", " ", "c", "l", "a", "s", "s", "=", "\"", "l", "e", "g", "e", "n",
           "d", "-", "b", "a", "r", "\"", ">", "<", "/", "d", "i", "v", ">">>
        \o <<"<", "s", "p", "a", "n", " ", "c", "l", "a", "s", "s", "=", "\"", "l", "e", "g", "e",
           "n", "d", "-", "l", "a", "b", "e", "l", "\"", ">", "H", "i", "g", "h", "<",
           "/", "s", "p", "a", "n", ">">>
        \o <<"<", "/", "d", "i", "v", ">">>
      row(c, range) ==
        <<"<", "t", "r", ">">>
        \o <<"<", "t", "d", ">">> \o _esc(c.treatment_arm) \o <<"<", "/", "t", "d", ">">>
        \o <<"<", "t", "d", " ", "s", "t", "y", "l", "e", "=", "\"", "b", "a", "c", "k", "g", "r",
           "o", "u", "n", "d", "-", "c", "o", "l", "o", "r", ":", " ">> \o _cell_color(c.statistic, range)
        \o <<";", " ", "c", "o", "l", "o", "r", ":", " ">> \o _cell_text_color(c.statistic, range)
        \o <<";", " ", "f", "o", "n", "t", "-", "w", "e", "i", "g", "h", "t", ":", " ", "6", "0",
           "0", ";", " ", "t", "e", "x", "t", "-", "a", "l", "i", "g", "n", ":", " ",
           "c", "e", "n", "t", "e", "r", ";", " ", "b", "o", "r", "d", "e", "r", "-",
           "r", "a", "d", "i", "u", "s", ":", " ", "6", "p", "x", ";", "\"", ">">>
        \o _esc(c.statistic) \o <<"<", "/", "t", "d", ">">>
        \o <<"<", "t", "d", ">">> \o _esc(c.context) \o <<"<", "/", "t", "d", ">">>
        \o <<"<", "t", "d", ">">> \o _esc(c.sample_size) \o <<"<", "/", "t", "d", ">">>
        \o <<"<", "/", "t", "r", ">", "\n">>
      table(timepoint, endpoint, group, range) ==
        <<"<", "d", "i", "v", " ", "c", "l", "a", "s", "s", "=", "\"", "c", "a", "r", "d",
        "\"", ">", "<", "h", "2", ">">> \o _esc(endpoint) \o EmDash \o _esc(timepoint)
        \o <<"<", "/", "h", "2", ">">> \o <<"<", "t", "a", "b", "l", "e", ">", "<", "t", "h", "e", "a", "d", ">", "<", "t", "r",
                        ">">>
        \o <<"<", "t", "h", ">", "T", "r", "e", "a", "t", "m", "e", "n", "t", " ", "A", "r", "m",
           "<", "/", "t", "h", ">", "<", "t", "h", ">", "S", "t", "a", "t", "i", "s",
           "t", "i", "c", "<", "/", "t", "h", ">", "<", "t", "h", ">", "C", "o", "n",
           "t", "e", "x", "t", "<", "/", "t", "h", ">", "<", "t", "h", ">", "S", "a",
           "m", "p", "l", "e", " ", "S", "i", "z", "e", "<", "/", "t", "h", ">">>
        \o <<"<", "/", "t", "r", ">", "<", "/", "t", "h", "e", "a", "d", ">", "<", "t", "b", "o",
           "d", "y", ">">>
        \o Flatten([i \in 1..Len(group) |-> row(group[i], range)])
        \o <<"<", "/", "t", "b", "o", "d", "y", ">", "<", "/", "t", "a", "b", "l", "e", ">", "<",
           "/", "d", "i", "v", ">">>
      Document(drug_name, groups, range) ==
        _html_skeleton(
          drug_name \o <<" ", "E", "f", "f", "i", "c", "a", "c", "y", " ", "M", "a", "t", "r", "i", "x">>,
          color_legend
          \o Flatten([k \in 1..Len(groups) |->
                        table(groups[k].key[1], groups[k].key[2], groups[k].group, range)])
          \o _build_footer(cs),
          <<>>, FALSE, HeatmapCss, drug_name, <<"E", "f", "f", "i", "c", "a", "c", "y", " ", "M", "a", "t", "r", "i", "x">>)
  IN Document(_extract_drug_name(cs), _group_by_keys(cs, "timepoint", "endpoint"),
              HeatRange(cs))

\* excerpt of the extra_css of render_infographic
InfographicCss == <<"\n", " ", " ", " ", " ", " ", " ", " ", " ", ".", "h", "e", "r", "o", " ", "{",
                  "\n", " ", " ", " ", " ", " ", " ", " ", " ", " ", " ", " ", " ",
                  "t", "e", "x", "t", "-", "a", "l", "i", "g", "n", ":", " ", "c", "e",
                  "n", "t", "e", "r", ";", "\n", " ", " ", " ", " ", " ", " ", " ",
                  " ", "}", "\n", " ", " ", " ", " ">>

render_infographic(cs) ==
  LET meta(c) == _esc(c.endpoint) \o EmDash \o _esc(c.context) \o EmDash \o _esc(c.timepoint)
      hero(hero_claim) ==
        <<"<", "d", "i", "v", " ", "c", "l", "a", "s", "s", "=", "\"", "h", "e", "r", "o",
        "\"", ">">>
        \o <<"<", "d", "i", "v", " ", "c", "l", "a", "s", "s", "=", "\"", "h", "e", "r", "o", "-",
           "s", "t", "a", "t", "\"", ">">> \o _esc(hero_claim.statistic) \o <<"<", "/", "d", "i", "v", ">">>
        \o <<"<", "d", "i", "v", " ", "c", "l", "a", "s", "s", "=", "\"", "h", "e", "r", "o", "-",
           "l", "a", "b", "e", "l", "\"", ">">> \o _esc(hero_claim.treatment_arm) \o <<"<", "/", "d", "i", "v", ">">>
        \o <<"<", "d", "i", "v", " ", "c", "l", "a", "s", "s", "=", "\"", "h", "e", "r", "o", "-",
           "c", "o", "n", "t", "e", "x", "t", "\"", ">">> \o meta(hero_claim) \o <<"<", "/", "d", "i", "v", ">">>
        \o <<"<", "/", "d", "i", "v", ">">>
      detail_item(i, c) ==
        <<"<", "d", "i", "v", " ", "c", "l", "a", "s", "s", "=", "\"", "d", "e", "t", "a", "i",
        "l", "-", "i", "t", "e", "m", "\"", " ", "s", "t", "y", "l", "e", "=", "\"",
        "b", "o", "r", "d", "e", "r", "-", "l", "e", "f", "t", ":", " ", "4", "p", "x",
        " ", "s", "o", "l", "i", "d", " ">>
        \o Cycle(COLORS, i) \o <<";", "\"", ">">>
        \o <<"<", "d", "i", "v", " ", "c", "l", "a", "s", "s", "=", "\"", "d", "e", "t", "a", "i",
           "l", "-", "s", "t", "a", "t", "\"", ">">> \o _esc(c.statistic) \o <<"<", "/", "d", "i", "v", ">">>
        \o <<"<", "d", "i", "v", " ", "c", "l", "a", "s", "s", "=", "\"", "d", "e", "t", "a", "i",
           "l", "-", "a", "r", "m", "\"", ">">> \o _esc(c.treatment_arm) \o <<"<", "/", "d", "i", "v", ">">>
        \o <<"<", "d", "i", "v", " ", "c", "l", "a", "s", "s", "=", "\"", "d", "e", "t", "a", "i",
           "l", "-", "m", "e", "t", "a", "\"", ">">> \o meta(c) \o <<"<", "/", "d", "i", "v", ">">>
        \o <<"<", "/", "d", "i", "v", ">">>
      datasets_json ==
        <<"[", "{", "\"", "l", "a", "b", "e", "l", "\"", ":", " ", "\"", "V", "a", "l", "u",
        "e", "\"", ",", " ", "\"", "d", "a", "t", "a", "\"", ":", " ">>
        \o JsonList([i \in 1..Len(cs) |-> JsonValue(_parse_stat(cs[i].statistic))])
        \o <<",", " ", "\"", "b", "a", "c", "k", "g", "r", "o", "u", "n", "d", "C", "o", "l", "o",
           "r", "\"", ":", " ">>
        \o JsonList([i \in 1..Len(cs) |-> JsonString(Cycle(COLORS, i - 1))])
        \o <<",", " ", "\"", "b", "o", "r", "d", "e", "r", "R", "a", "d", "i", "u", "s", "\"",
           ":", " ", "6", ",", " ", "\"", "b", "o", "r", "d", "e", "r", "S", "k", "i",
           "p", "p", "e", "d", "\"", ":", " ", "f", "a", "l", "s", "e", "}", "]">>
      labels_json == JsonList([i \in 1..Len(cs) |-> JsonString(cs[i].treatment_arm)])
      Document(drug_name) ==
        _html_skeleton(
          drug_name \o <<" ", "C", "l", "i", "n", "i", "c", "a", "l", " ", "O", "v", "e", "r", "v", "i", "e",
                       "w">>,
          (IF cs = <<>> THEN <<>> ELSE hero(cs[1]))
          \o <<"<", "d", "i", "v", " ", "c", "l", "a", "s", "s", "=", "\"", "d", "e", "t", "a", "i",
             "l", "-", "g", "r", "i", "d", "\"", ">">>
          \o Flatten([i \in 1..Len(cs) |-> detail_item(i - 1, cs[i])]) \o <<"<", "/", "d", "i", "v", ">">>
          \o <<"<", "d", "i", "v", " ", "c", "l", "a", "s", "s", "=", "\"", "c", "a", "r", "d",
             "\"", ">", "<", "h", "2", ">", "S", "u", "m", "m", "a", "r", "y", "<",
             "/", "h", "2", ">", "<", "c", "a", "n", "v", "a", "s", " ", "i", "d", "=",
             "\"", "c", "h", "a", "r", "t", "-", "0", "\"", ">", "<", "/", "c", "a",
             "n", "v", "a", "s", ">", "<", "/", "d", "i", "v", ">">>
          \o _build_data_table(cs) \o _build_footer(cs),
          <<"<", "s", "c", "r", "i", "p", "t", ">">>
          \o _build_chart_script(<<"c", "h", "a", "r", "t", "-", "0">>, <<"b", "a", "r">>, labels_json, datasets_json,
                                 <<"S", "u", "m", "m", "a", "r", "y">>)
          \o <<"\n", "<", "/", "s", "c", "r", "i", "p", "t", ">">>,
          TRUE, InfographicCss, drug_name, <<"C", "l", "i", "n", "i", "c", "a", "l", " ", "O", "v", "e", "r", "v", "i", "e", "w">>)
  IN Document(_extract_drug_name(cs))

RendererNames == {"grouped_bar", "timeline", "spotlight_cards", "heatmap", "infographic"}

VARIANT_RENDERERS(name, cs) ==
  CASE name = "grouped_bar" -> render_grouped_bar(cs)
    [] name = "timeline" -> render_timeline(cs)
    [] name = "spotlight_cards" -> render_spotlight_cards(cs)
    [] name = "heatmap" -> render_heatmap(cs)
    [] name = "infographic" -> render_infographic(cs)

\* no exception
NoError == ""

\* The exception VARIANT_RENDERERS[name](cs) raises, NoError where it
\* returns: split()[0] of an arm of whitespace only, float() of a timepoint
\* number that is no number when sorted() asks for the keys, int() of a
\* heatmap cell whose statistic is no finite number.
RendererRaises(name, cs) ==
  LET arm == IF cs = <<>> THEN <<>> ELSE cs[1].treatment_arm
      timepoints == _unique_values(cs, "timepoint")
      NoKey(tps) == \E k \in 1..Len(tps) : _sort_timepoint_key(tps[k]) = None
      NoCell(val) == val # None /\ ~IsFinite(val)
  IN IF arm # <<>> /\ Split(arm) = <<>> THEN "IndexError"
     ELSE IF name = "timeline" /\ Len(timepoints) > 1 /\ NoKey(timepoints)
       THEN "ValueError"
     ELSE IF name = "heatmap"
             /\ \E i \in 1..Len(cs) : NoCell(_parse_stat(cs[i].statistic))
       THEN "ValueError"
     ELSE NoError

-----------------------------------------------------------------------------
(* The inputs: claims as the extraction returns them, markup as a caller   *)
(* of the checkers writes it (tests/conftest.py, tests/unit/               *)
(* test_compliance.py).                                                    *)

MaxClaims == 2
MaxEdits == 1

\* "36.2%", after the first claim of the fixture
ClaimA ==
  [statistic |-> <<"3", "6", ".", "2", "%">>,
   context |-> <<"A", "T">>,
   timepoint |-> <<"W", "e", "e", "k", " ", "4">>,
   treatment_arm |-> <<"R", "x", " ", "5", "m", "g">>,
   sample_size |-> <<"n", "=", "1", "3">>,
   citation |-> <<"Z", "h">>,
   qualifiers |-> <<<<"P", "h">>>>,
   endpoint |-> <<"S", "U2264", "2">>]

\* "23.0%", after the second claim of the fixture: same timepoint and
\* endpoint, its own citation and qualifier
ClaimB ==
  [statistic |-> <<"2", "3", ".", "0", "%">>,
   context |-> <<"A", "U">>,
   timepoint |-> <<"W", "e", "e", "k", " ", "4">>,
   treatment_arm |-> <<"P", "b">>,
   sample_size |-> <<"n", "=", "4">>,
   citation |-> <<"K", "i">>,
   qualifiers |-> <<<<"S", "g">>>>,
   endpoint |-> <<"S", "U2264", "2">>]

\* shares ClaimA's statistic, citation and a qualifier; another endpoint at
\* the same timepoint
ClaimC ==
  [statistic |-> <<"3", "6", ".", "2", "%">>,
   context |-> <<"A", "T">>,
   timepoint |-> <<"W", "e", "e", "k", " ", "4">>,
   treatment_arm |-> <<"P", "b">>,
   sample_size |-> <<"n", "=", "4">>,
   citation |-> <<"Z", "h">>,
   qualifiers |-> <<<<"P", "h">>, <<"S", "g">>>>,
   endpoint |-> <<"S", "U2264", "1">>]

\* a statistic that is no number, no qualifiers, a context that holds a
\* percentage and a markup character, an earlier timepoint
ClaimD ==
  [statistic |-> <<"N", "R">>,
   context |-> <<">", "5", "0", "%">>,
   timepoint |-> <<"D", "a", "y", " ", "7">>,
   treatment_arm |-> <<"R", "x", " ", "5", "m", "g">>,
   sample_size |-> <<"n", "=", "1", "3">>,
   citation |-> <<"K", "i">>,
   qualifiers |-> <<>>,
   endpoint |-> <<"S", "U2264", "2">>]

ClaimPool == {ClaimA, ClaimB, ClaimC, ClaimD}

\* every list of at most MaxClaims different claims of the pool, in every
\* order; ClaimA and ClaimC are two claims with the same statistic, citation
\* and qualifier
ClaimLists ==
  UNION {{cs \in [1..n -> ClaimPool] : \A i, j \in 1..n : i # j => cs[i] # cs[j]} :
           n \in 0..MaxClaims}

\* text a caller may add to the markup: percentages no claim states, 0 and
\* 100, a statistic written another way, a statistic one digit longer or off
\* by a tenth, text inside style and script elements, facts in another letter
\* case, an endpoint written with a character reference
Fragments ==
  {<<" ", "4", "5", "%">>,
   <<" ", "0", "%", " ", "1", "0", "0", ".", "0", "%">>,
   <<" ", "3", "6", ".", "2", "0", " ", "%">>,
   <<" ", "3", "6", ".", "2", "5", "%">>,
   <<" ", "3", "6", ".", "3", "%">>,
   <<"<", "S", "T", "Y", "L", "E", ">", "4", "5", "%", " ", "z", "h", "<",
     "/", "S", "T", "Y", "L", "E", ">">>,
   <<"<", "s", "c", "r", "i", "p", "t", ">", "3", "6", ".", "2", "%", "<",
     "/", "s", "c", "r", "i", "p", "t", ">">>,
   <<" ", "Z", "H", " ", "P", "H">>,
   <<" ", "S", "&", "l", "e", ";", "2">>}

Space == <<" ">>

\* the statistic, citation, qualifiers and endpoint of one claim
Facts(claim) == <<claim.statistic, claim.citation>> \o claim.qualifiers \o <<claim.endpoint>>

AllFacts(cs) == Flatten([i \in 1..Len(cs) |-> Facts(cs[i])])

\* a paragraph that states every fact of every claim
FactsDoc(cs) ==
  <<"<", "p", ">">>
  \o Flatten([k \in 1..Len(AllFacts(cs)) |-> AllFacts(cs)[k] \o Space])
  \o <<"<", "/", "p", ">">>

\* s.replace(v, ""): every occurrence of v, left to right
RECURSIVE RemoveFrom(_, _, _)
RemoveFrom(s, i, v) ==
  LET starts == {p \in i..Len(s) : MatchAt(s, p, v)}
  IN IF v = <<>> \/ starts = {} THEN SubSeq(s, i, Len(s))
     ELSE SubSeq(s, i, Min(starts) - 1) \o RemoveFrom(s, Min(starts) + Len(v), v)

RemoveText(s, v) == RemoveFrom(s, 1, v)

\* the markup with its special characters written as character references
WriteChar(c) == IF c = "U2264" THEN <<"&", "l", "e", ";">> ELSE EscapeChar(c)

WriteAsReferences(s) == Flatten([i \in 1..Len(s) |-> WriteChar(s[i])])

-----------------------------------------------------------------------------
(* The state machine.  claims is the extraction; html the markup under     *)
(* check; origin tells how html came about (by a renderer or by a caller,  *)
(* plain being the markup before its characters were written as            *)
(* references); checks and report are what the aggregator computed for     *)
(* html; result is the VariantResult object made for html; raised is the   *)
(* exception the last call raised, NoError when it returned; run is the    *)
(* call of run_pipeline in progress, None when there is none.              *)

Caller == "caller"

Init ==
  /\ claims \in ClaimLists
  /\ html = <<>>
  /\ origin = [by |-> Caller, edits |-> 0, encoded |-> FALSE, plain |-> <<>>]
  /\ checks = None
  /\ report = None
  /\ result = None
  /\ raised = NoError
  /\ run = None

Unchecked == checks = None /\ report = None

\* VARIANT_RENDERERS[r](claims)
Generate(r) ==
  /\ Unchecked /\ origin.by = Caller /\ origin.edits = 0 /\ ~origin.encoded
  /\ html = <<>> /\ result = None /\ raised = NoError
  /\ raised' = RendererRaises(r, claims)
  /\ html' = IF raised' = NoError THEN VARIANT_RENDERERS(r, claims) ELSE html
  /\ origin' = [origin EXCEPT !.by = r]
  /\ UNCHANGED <<claims, checks, report, result, run>>

\* a caller writes a document stating every fact
Compose ==
  /\ Unchecked /\ origin.by = Caller /\ origin.edits = 0 /\ ~origin.encoded
  /\ html = <<>>
  /\ html' = FactsDoc(claims)
  /\ UNCHANGED <<claims, origin, checks, report, result, raised, run>>

\* a caller adds text
AddText(f) ==
  /\ Unchecked /\ origin.by = Caller /\ ~origin.encoded
  /\ origin.edits < MaxEdits
  /\ html' = html \o f
  /\ origin' = [origin EXCEPT !.edits = @ + 1]
  /\ UNCHANGED <<claims, checks, report, result, raised, run>>

\* a caller takes one fact out of the document
RemoveFact(v) ==
  /\ Unchecked /\ origin.by = Caller /\ ~origin.encoded
  /\ origin.edits < MaxEdits
  /\ Contains(html, v)
  /\ html' = RemoveText(html, v)
  /\ origin' = [origin EXCEPT !.edits = @ + 1]
  /\ UNCHANGED <<claims, checks, report, result, raised, run>>

\* a caller writes the special characters as character references
Encode ==
  /\ Unchecked /\ origin.by = Caller /\ ~origin.encoded
  /\ html # <<>>
  /\ html' = WriteAsReferences(html)
  /\ origin' = [origin EXCEPT !.encoded = TRUE, !.plain = html]
  /\ UNCHANGED <<claims, checks, report, result, raised, run>>

\* run_programmatic_compliance(html, extraction)
Validate ==
  /\ Unchecked /\ raised = NoError
  /\ \E decoded \in {unescape(html)} :
       \E u \in Orderings(check_unexpected_numbers(decoded, claims)) :
         \E found \in {RunCheckers(decoded, claims, u)} :
           /\ checks' = found
           /\ report' = Aggregate(found)
  /\ UNCHANGED <<claims, html, origin, result, raised, run>>

Next ==
  \/ \E r \in RendererNames : Generate(r)
  \/ Compose
  \/ \E f \in Fragments : AddText(f)
  \/ \E k \in 1..Len(AllFacts(claims)) : RemoveFact(AllFacts(claims)[k])
  \/ Encode
  \/ Validate

Spec == Init /\ [][Next]_vars

-----------------------------------------------------------------------------
(* The renderers on claims whose fields hold what a claim field may hold   *)
(* and a template did not expect.                                          *)

\* ClaimA with one field changed: an arm of markup, quotes and a backslash;
\* an endpoint that is the end tag of a script; a statistic that float()
\* reads as not-a-number; a timepoint whose number has two points; a
\* timepoint of many days; a timepoint that names no unit.  ClaimB at
\* another timepoint that names no unit.  A second result of ClaimA's arm
\* at ClaimA's timepoint and endpoint.
HostileClaims ==
  {[ClaimA EXCEPT !.treatment_arm = <<"<", "b", ">", "'", "\"", "\\">>],
   [ClaimA EXCEPT !.endpoint = <<"<", "/", "s", "c", "r", "i", "p", "t", ">">>],
   [ClaimA EXCEPT !.statistic = <<"n", "a", "n">>],
   [ClaimA EXCEPT !.timepoint = <<"W", "e", "e", "k", " ", "1", ".", "2", ".", "3">>],
   [ClaimA EXCEPT !.timepoint = <<"D", "a", "y", " ", "1", "5", "0", "0">>],
   [ClaimA EXCEPT !.timepoint = <<"B", "a", "s", "e", "l", "i", "n", "e">>],
   [ClaimB EXCEPT !.timepoint = <<"W", "k", " ", "2">>],
   [ClaimA EXCEPT !.statistic = <<"1", "2", "%">>]}

\* every list of at most MaxClaims different claims, hostile or not
RenderLists ==
  UNION {{cs \in [1..n -> {ClaimA, ClaimB} \cup HostileClaims] :
            \A i, j \in 1..n : i # j => cs[i] # cs[j]} : n \in 0..MaxClaims}

RenderInit ==
  /\ claims \in RenderLists
  /\ html = <<>>
  /\ origin = [by |-> Caller, edits |-> 0, encoded |-> FALSE, plain |-> <<>>]
  /\ checks = None
  /\ report = None
  /\ result = None
  /\ raised = NoError
  /\ run = None

\* a second application of the renderer that made html
Regenerate(r) ==
  /\ origin.by = r /\ raised = NoError
  /\ raised' = RendererRaises(r, claims)
  /\ html' = IF raised' = NoError THEN VARIANT_RENDERERS(r, claims) ELSE html
  /\ UNCHANGED <<claims, origin, checks, report, result, run>>

RenderNext ==
  \/ \E r \in RendererNames : Generate(r)
  \/ \E r \in RendererNames : Regenerate(r)

RenderSpec == RenderInit /\ [][RenderNext]_vars

-----------------------------------------------------------------------------
(* pipeline/schemas.py: ComplianceReport and VariantResult, and            *)
(* pipeline/validate.py.  result is the VariantResult object a caller      *)
(* holds; a call is modelled by its keyword arguments, a record.           *)

\* The ComplianceReport objects a caller or the semantic review may make: the class
\* has no validator, passed and flags are given independently.
ReportValues ==
  {ComplianceReport(passed, flags) :
     passed \in BOOLEAN,
     flags \in {<<>>, <<ComplianceFlag("citation_missing", "error", <<"Z", "h">>, <<>>)>>}}

\* what the structured output of the reviewing model may be
semantic_compliance(html_content, cs) == ReportValues

\* @model_validator(mode="after")
derive_overall_passed(self) ==
  [self EXCEPT !.overall_passed = self.programmatic.passed /\ self.semantic.passed]

\* VariantResult(**kwargs): every field is required; the object the
\* validator returns, or the error raised
VariantResult(kwargs) ==
  IF {"variant_type", "html", "programmatic", "semantic", "overall_passed"}
       \subseteq DOMAIN kwargs
    THEN derive_overall_passed(kwargs)
    ELSE [error |-> "ValidationError"]

\* the calls VariantResult(variant_type=..., html=..., programmatic=...)
\* with semantic and overall_passed given or not
KwargsSets(variant_type, html_content) ==
  LET Required(p) ==
        [variant_type |-> variant_type, html |-> html_content, programmatic |-> p]
      WithSemantic(k) == {k} \cup {k @@ [semantic |-> s] : s \in ReportValues}
      WithOverall(k) == {k} \cup {k @@ [overall_passed |-> b] : b \in BOOLEAN}
  IN UNION {UNION {WithOverall(k) : k \in WithSemantic(Required(p))} :
              p \in ReportValues}

\* a caller constructs a VariantResult
Construct(kwargs) ==
  /\ result = None /\ raised = NoError
  /\ \E made \in {VariantResult(kwargs)} :
       IF "error" \in DOMAIN made
         THEN raised' = made.error /\ result' = result
         ELSE result' = made /\ raised' = raised
  /\ UNCHANGED <<claims, html, origin, checks, report, run>>

\* setattr(result, field, value): the class sets neither frozen nor
\* validate_assignment, no validator runs
Assign(field, value) ==
  /\ result # None
  /\ result' = [result EXCEPT ![field] = value]
  /\ UNCHANGED <<claims, html, origin, checks, report, raised, run>>

validate_variant(variant_type) ==
  /\ result = None /\ raised = NoError
  /\ \E programmatic \in run_programmatic_compliance(html, claims) :
       \E semantic \in semantic_compliance(html, claims) :
         result' = VariantResult([variant_type |-> variant_type, html |-> html,
                                  programmatic |-> programmatic,
                                  semantic |-> semantic,
                                  overall_passed |-> FALSE])
  /\ UNCHANGED <<claims, html, origin, checks, report, raised, run>>

ResultNext ==
  \/ result = None /\ raised = NoError /\ Compose
  \/ \E kwargs \in KwargsSets("grouped_bar", html) : Construct(kwargs)
  \/ \E field \in {"programmatic", "semantic"} :
       \E value \in ReportValues : Assign(field, value)
  \/ \E value \in BOOLEAN : Assign("overall_passed", value)
  \/ validate_variant("grouped_bar")

ResultSpec == Init /\ [][ResultNext]_vars

-----------------------------------------------------------------------------
(* pipeline/generate.py and pipeline/orchestrator.py: the index page       *)

VARIANT_TYPES == <<"grouped_bar", "timeline", "spotlight_cards", "heatmap", "infographic">>

\* the name of a variant type as text
TypeText(vt) ==
  CASE vt = "grouped_bar" -> <<"g", "r", "o", "u", "p", "e", "d", "_", "b", "a", "r">>
    [] vt = "timeline" -> <<"t", "i", "m", "e", "l", "i", "n", "e">>
    [] vt = "spotlight_cards" -> <<"s", "p", "o", "t", "l", "i", "g", "h", "t", "_", "c", "a", "r", "d", "s">>
    [] vt = "heatmap" -> <<"h", "e", "a", "t", "m", "a", "p">>
    [] vt = "infographic" -> <<"i", "n", "f", "o", "g", "r", "a", "p", "h", "i", "c">>

\* (label, description) of a variant type
_VARIANT_LABELS(vt) ==
  CASE vt = "grouped_bar" ->
         <<<<"E", "f", "f", "i", "c", "a", "c", "y", " ", "b", "y", " ", "S", "u", "b", "g", "r",
           "o", "u", "p">>,
           <<"G", "r", "o", "u", "p", "e", "d", " ", "b", "a", "r", " ", "c", "h", "a", "r", "t",
           "s", " ", "c", "o", "m", "p", "a", "r", "i", "n", "g", " ", "t", "r", "e",
           "a", "t", "m", "e", "n", "t", " ", "a", "r", "m", "s", " ", "a", "c", "r",
           "o", "s", "s", " ", "e", "n", "d", "p", "o", "i", "n", "t", "s", " ", "a",
           "n", "d", " ", "t", "i", "m", "e", "p", "o", "i", "n", "t", "s">>>>
    [] vt = "timeline" ->
         <<<<"R", "e", "s", "p", "o", "n", "s", "e", " ", "O", "v", "e", "r", " ", "T", "i", "m",
           "e">>,
           <<"L", "i", "n", "e", " ", "c", "h", "a", "r", "t", "s", " ", "t", "r", "a", "c", "k",
           "i", "n", "g", " ", "e", "f", "f", "i", "c", "a", "c", "y", " ", "p", "r",
           "o", "g", "r", "e", "s", "s", "i", "o", "n", " ", "a", "c", "r", "o", "s",
           "s", " ", "s", "t", "u", "d", "y", " ", "t", "i", "m", "e", "p", "o", "i",
           "n", "t", "s">>>>
    [] vt = "spotlight_cards" ->
         <<<<"C", "l", "i", "n", "i", "c", "a", "l", " ", "S", "p", "o", "t", "l", "i", "g", "h",
           "t">>,
           <<"C", "a", "r", "d", "-", "b", "a", "s", "e", "d", " ", "l", "a", "y", "o", "u", "t",
           " ", "h", "i", "g", "h", "l", "i", "g", "h", "t", "i", "n", "g", " ", "k",
           "e", "y", " ", "s", "t", "a", "t", "i", "s", "t", "i", "c", "s", " ", "b",
           "y", " ", "p", "a", "t", "i", "e", "n", "t", " ", "s", "u", "b", "g", "r",
           "o", "u", "p">>>>
    [] vt = "heatmap" ->
         <<<<"E", "f", "f", "i", "c", "a", "c", "y", " ", "M", "a", "t", "r", "i", "x">>,
           <<"C", "o", "l", "o", "r", "-", "c", "o", "d", "e", "d", " ", "m", "a", "t", "r", "i",
           "x", " ", "v", "i", "s", "u", "a", "l", "i", "z", "i", "n", "g", " ", "r",
           "e", "s", "p", "o", "n", "s", "e", " ", "r", "a", "t", "e", "s", " ", "a",
           "c", "r", "o", "s", "s", " ", "a", "r", "m", "s", " ", "a", "n", "d", " ",
           "s", "u", "b", "g", "r", "o", "u", "p", "s">>>>
    [] vt = "infographic" ->
         <<<<"C", "l", "i", "n", "i", "c", "a", "l", " ", "O", "v", "e", "r", "v", "i", "e", "w">>,
           <<"H", "e", "r", "o", " ", "s", "t", "a", "t", "i", "s", "t", "i", "c", " ", "w", "i",
           "t", "h", " ", "d", "e", "t", "a", "i", "l", " ", "g", "r", "i", "d", " ",
           "s", "u", "m", "m", "a", "r", "i", "z", "i", "n", "g", " ", "a", "l", "l",
           " ", "e", "n", "d", "p", "o", "i", "n", "t", "s">>>>

\* excerpt of the icon of a variant type: its first shape
_VARIANT_ICONS(vt) ==
  <<"<", "s", "v", "g", " ", "v", "i", "e", "w", "B", "o", "x", "=", "\"", "0", " ", "0",
  " ", "2", "4", " ", "2", "4", "\"", ">">>
  \o (CASE vt = "grouped_bar" -> <<"<", "r", "e", "c", "t", " ", "x", "=", "\"", "3", "\"", " ", "y", "=", "\"", "1",
                                 "2", "\"", " ", "w", "i", "d", "t", "h", "=", "\"",
                                 "4", "\"", " ", "h", "e", "i", "g", "h", "t", "=",
                                 "\"", "9", "\"", " ", "r", "x", "=", "\"", "1", "\"",
                                 "/", ">">>
        [] vt = "timeline" -> <<"<", "p", "o", "l", "y", "l", "i", "n", "e", " ", "p", "o", "i", "n", "t", "s", "=",
                              "\"", "2", "2", " ", "1", "2", " ", "1", "8", " ", "1",
                              "2", " ", "1", "5", " ", "2", "1", " ", "9", " ", "3",
                              " ", "6", " ", "1", "2", " ", "2", " ", "1", "2", "\"",
                              "/", ">">>
        [] vt = "spotlight_cards" -> <<"<", "r", "e", "c", "t", " ", "x", "=", "\"", "3", "\"", " ", "y", "=", "\"", "3",
                                     "\"", " ", "w", "i", "d", "t", "h", "=", "\"",
                                     "7", "\"", " ", "h", "e", "i", "g", "h", "t", "=",
                                     "\"", "9", "\"", " ", "r", "x", "=", "\"", "1",
                                     "\"", "/", ">">>
        [] vt = "heatmap" -> <<"<", "r", "e", "c", "t", " ", "x", "=", "\"", "3", "\"", " ", "y", "=", "\"", "3",
                             "\"", " ", "w", "i", "d", "t", "h", "=", "\"", "1", "8",
                             "\"", " ", "h", "e", "i", "g", "h", "t", "=", "\"", "1",
                             "8", "\"", " ", "r", "x", "=", "\"", "2", "\"", "/", ">">>
        [] vt = "infographic" -> <<"<", "c", "i", "r", "c", "l", "e", " ", "c", "x", "=", "\"", "1", "2", "\"", " ",
                                 "c", "y", "=", "\"", "1", "2", "\"", " ", "r", "=",
                                 "\"", "1", "0", "\"", "/", ">">>)
  \o <<"<", "/", "s", "v", "g", ">">>

_ACCENT_COLORS ==
  <<<<"#", "0", "d", "9", "4", "8", "8">>, <<"#", "a", "8", "5", "5", "f", "7">>, <<"#", "e", "8", "7", "9", "a", "0">>, <<"#", "2", "d", "4", "a", "7", "a">>, <<"#", "c", "0", "2", "6", "d", "3">>>>

\* sorted(S) for a set of numbers
Sorted(S) ==
  [k \in 1..Cardinality(S) |-> CHOOSE x \in S : Cardinality({y \in S : y < x}) = k - 1]

\* i in seq
In(i, seq) == \E k \in 1..Len(seq) : seq[k] = i

\* dict(results)[i]: the result of the last pair with index i
ResultOf(results, i) ==
  results[Max({k \in 1..Len(results) : results[k][1] = i})][2]

\* the card of variant i
IndexCard(i, vt, results, failed_indices) ==
  LET failed_badge == <<"<", "s", "p", "a", "n", " ", "c", "l", "a", "s", "s", "=", "\"", "b", "a", "d", "g",
                      "e", " ", "b", "a", "d", "g", "e", "-", "f", "a", "i", "l", "e",
                      "d", "\"", ">", "F", "a", "i", "l", "e", "d", "<", "/", "s", "p",
                      "a", "n", ">">>
      passed_badge == <<"<", "s", "p", "a", "n", " ", "c", "l", "a", "s", "s", "=", "\"", "b", "a", "d", "g",
                      "e", " ", "b", "a", "d", "g", "e", "-", "p", "a", "s", "s", "e",
                      "d", "\"", ">", "P", "a", "s", "s", "e", "d", "<", "/", "s", "p",
                      "a", "n", ">">>
      Card(status_badge, link_attr, card_class, accent) ==
        <<"<", "d", "i", "v", " ", "c", "l", "a", "s", "s", "=", "\"">> \o card_class \o <<"\"">> \o link_attr \o <<">">>
        \o <<"<", "d", "i", "v", " ", "c", "l", "a", "s", "s", "=", "\"", "c", "a", "r", "d", "-",
           "a", "c", "c", "e", "n", "t", "\"", " ", "s", "t", "y", "l", "e", "=", "\"",
           "b", "a", "c", "k", "g", "r", "o", "u", "n", "d", ":">> \o accent \o <<"\"", ">", "<", "/", "d", "i", "v", ">">>
        \o <<"<", "d", "i", "v", " ", "c", "l", "a", "s", "s", "=", "\"", "c", "a", "r", "d", "-",
           "b", "o", "d", "y", "\"", ">">>
        \o <<"<", "d", "i", "v", " ", "c", "l", "a", "s", "s", "=", "\"", "c", "a", "r", "d", "-",
           "h", "e", "a", "d", "e", "r", "\"", ">">>
        \o <<"<", "d", "i", "v", " ", "c", "l", "a", "s", "s", "=", "\"", "c", "a", "r", "d", "-",
           "i", "c", "o", "n", "\"", " ", "s", "t", "y", "l", "e", "=", "\"", "c", "o",
           "l", "o", "r", ":">> \o accent \o <<"\"", ">">> \o _VARIANT_ICONS(vt) \o <<"<", "/", "d", "i", "v", ">">>
        \o <<"<", "d", "i", "v", " ", "c", "l", "a", "s", "s", "=", "\"", "c", "a", "r", "d", "-",
           "m", "e", "t", "a", "\"", ">", "<", "s", "p", "a", "n", " ", "c", "l", "a",
           "s", "s", "=", "\"", "c", "a", "r", "d", "-", "n", "u", "m", "b", "e", "r",
           "\"", ">", "V", "a", "r", "i", "a", "n", "t", " ">> \o NatStr(i) \o <<"<", "/", "s", "p", "a", "n", ">">>
        \o status_badge \o <<"<", "/", "d", "i", "v", ">">>
        \o <<"<", "/", "d", "i", "v", ">">>
        \o <<"<", "h", "2", " ", "c", "l", "a", "s", "s", "=", "\"", "c", "a", "r", "d", "-", "t",
           "i", "t", "l", "e", "\"", ">">> \o _VARIANT_LABELS(vt)[1] \o <<"<", "/", "h", "2", ">">>
        \o <<"<", "p", " ", "c", "l", "a", "s", "s", "=", "\"", "c", "a", "r", "d", "-", "d", "e",
           "s", "c", "r", "i", "p", "t", "i", "o", "n", "\"", ">">> \o _VARIANT_LABELS(vt)[2] \o <<"<", "/", "p", ">">>
        \o <<"<", "d", "i", "v", " ", "c", "l", "a", "s", "s", "=", "\"", "c", "a", "r", "d", "-",
           "f", "o", "o", "t", "e", "r", "\"", ">">>
        \o <<"<", "s", "p", "a", "n", " ", "c", "l", "a", "s", "s", "=", "\"", "c", "a", "r", "d",
           "-", "t", "y", "p", "e", "\"", ">">> \o TypeText(vt) \o <<"<", "/", "s", "p", "a", "n", ">">>
        \o (IF ~In(i, failed_indices)
              THEN <<"<", "s", "p", "a", "n", " ", "c", "l", "a", "s", "s", "=", "&", "q", "u", "o", "t",
                   ";", "c", "a", "r", "d", "-", "l", "i", "n", "k", "&", "q", "u",
                   "o", "t", ";", ">", "V", "i", "e", "w", " ", "&", "r", "a", "r",
                   "r", ";", "<", "/", "s", "p", "a", "n", ">">> ELSE <<>>)
        \o <<"<", "/", "d", "i", "v", ">">>
        \o <<"<", "/", "d", "i", "v", ">">>
        \o <<"<", "/", "d", "i", "v", ">">>
  IN IF In(i, failed_indices)
       THEN Card(failed_badge, <<>>, <<"v", "a", "r", "i", "a", "n", "t", "-", "c", "a", "r", "d", " ", "v", "a", "r", "i",
                                     "a", "n", "t", "-", "c", "a", "r", "d", "-", "-",
                                     "d", "i", "s", "a", "b", "l", "e", "d">>,
                 Cycle(_ACCENT_COLORS, i))
       ELSE Card(IF ResultOf(results, i).overall_passed THEN passed_badge ELSE failed_badge,
                 <<" ", "o", "n", "c", "l", "i", "c", "k", "=", "\"", "w", "i", "n", "d", "o", "w", ".",
                 "l", "o", "c", "a", "t", "i", "o", "n", ".", "h", "r", "e", "f", "=",
                 "'", "v", "a", "r", "i", "a", "n", "t", "_">> \o NatStr(i)
                   \o <<".", "h", "t", "m", "l", "'", "\"", " ", "s", "t", "y", "l", "e", "=", "\"", "c",
                      "u", "r", "s", "o", "r", ":", "p", "o", "i", "n", "t", "e", "r",
                      "\"">>,
                 <<"v", "a", "r", "i", "a", "n", "t", "-", "c", "a", "r", "d">>, Cycle(_ACCENT_COLORS, i))

\* results is a list of pairs (index, VariantResult); the style sheet is an
\* excerpt, the rules of the badges
_generate_index_html(results, failed_indices) ==
  LET Page(total, passed, failed, cards_html) ==
        <<"<", "!", "D", "O", "C", "T", "Y", "P", "E", " ", "h", "t", "m", "l", ">", "\n", "<",
        "h", "t", "m", "l", " ", "l", "a", "n", "g", "=", "\"", "e", "n", "\"", ">",
        "\n", "<", "h", "e", "a", "d", ">", "\n", " ", " ", "<", "m", "e", "t", "a",
        " ", "c", "h", "a", "r", "s", "e", "t", "=", "\"", "u", "t", "f", "-", "8",
        "\"", ">", "\n", " ", " ", "<", "t", "i", "t", "l", "e", ">", "C", "o", "n",
        "t", "e", "n", "t", " ", "V", "a", "r", "i", "a", "n", "c", "e", " ", "E", "n",
        "g", "i", "n", "e", "<", "/", "t", "i", "t", "l", "e", ">", "\n", " ", " ",
        "<", "s", "t", "y", "l", "e", ">", "\n", " ", " ", " ", " ", ".", "b", "a",
        "d", "g", "e", "-", "p", "a", "s", "s", "e", "d", " ", "{", " ", "b", "a", "c",
        "k", "g", "r", "o", "u", "n", "d", ":", " ", "#", "d", "1", "f", "a", "e", "5",
        ";", " ", "c", "o", "l", "o", "r", ":", " ", "#", "0", "6", "5", "f", "4", "6",
        ";", " ", "}", "\n", " ", " ", " ", " ", ".", "b", "a", "d", "g", "e", "-",
        "f", "a", "i", "l", "e", "d", " ", "{", " ", "b", "a", "c", "k", "g", "r", "o",
        "u", "n", "d", ":", " ", "#", "f", "e", "e", "2", "e", "2", ";", " ", "c", "o",
        "l", "o", "r", ":", " ", "#", "9", "9", "1", "b", "1", "b", ";", " ", "}",
        "\n", " ", " ", "<", "/", "s", "t", "y", "l", "e", ">", "\n", "<", "/", "h",
        "e", "a", "d", ">", "\n", "<", "b", "o", "d", "y", ">", "\n", " ", " ", "<",
        "d", "i", "v", " ", "c", "l", "a", "s", "s", "=", "\"", "p", "a", "g", "e",
        "-", "h", "e", "a", "d", "e", "r", "\"", ">", "\n", " ", " ", " ", " ", "<",
        "h", "1", ">", "C", "o", "n", "t", "e", "n", "t", " ", "V", "a", "r", "i", "a",
        "n", "c", "e", " ", "E", "n", "g", "i", "n", "e", "<", "/", "h", "1", ">",
        "\n", " ", " ", " ", " ", "<", "d", "i", "v", " ", "c", "l", "a", "s", "s",
        "=", "\"", "s", "u", "b", "t", "i", "t", "l", "e", "\"", ">", "P", "i", "p",
        "e", "l", "i", "n", "e", " ", "R", "e", "s", "u", "l", "t", "s", "<", "/", "d",
        "i", "v", ">", "\n", " ", " ", " ", " ", "<", "d", "i", "v", " ", "c", "l",
        "a", "s", "s", "=", "\"", "s", "t", "a", "t", "s", "-", "b", "a", "r", "\"",
        ">", "\n", " ", " ", " ", " ", " ", " ", "<", "d", "i", "v", " ", "c", "l",
        "a", "s", "s", "=", "\"", "s", "t", "a", "t", "-", "c", "h", "i", "p", "\"",
        ">", "<", "s", "p", "a", "n", " ", "c", "l", "a", "s", "s", "=", "\"", "s",
        "t", "a", "t", "-", "n", "u", "m", "\"", ">">>
        \o NatStr(total) \o <<"<", "/", "s", "p", "a", "n", ">", " ", "V", "a", "r", "i", "a", "n", "t", "s", "<",
                            "/", "d", "i", "v", ">", "\n", " ", " ", " ", " ", " ",
                            " ", "<", "d", "i", "v", " ", "c", "l", "a", "s", "s", "=",
                            "\"", "s", "t", "a", "t", "-", "c", "h", "i", "p", "\"",
                            ">", "<", "s", "p", "a", "n", " ", "c", "l", "a", "s", "s",
                            "=", "\"", "s", "t", "a", "t", "-", "n", "u", "m", "\"",
                            ">">>
        \o NatStr(passed) \o <<"<", "/", "s", "p", "a", "n", ">", " ", "P", "a", "s", "s", "e", "d", "<", "/", "d",
                             "i", "v", ">", "\n", " ", " ", " ", " ", " ", " ", "<",
                             "d", "i", "v", " ", "c", "l", "a", "s", "s", "=", "\"",
                             "s", "t", "a", "t", "-", "c", "h", "i", "p", "\"", ">",
                             "<", "s", "p", "a", "n", " ", "c", "l", "a", "s", "s",
                             "=", "\"", "s", "t", "a", "t", "-", "n", "u", "m", "\"",
                             ">">>
        \o NatStr(failed) \o <<"<", "/", "s", "p", "a", "n", ">", " ", "F", "a", "i", "l", "e", "d", "<", "/", "d",
                             "i", "v", ">", "\n", " ", " ", " ", " ", "<", "/", "d",
                             "i", "v", ">", "\n", " ", " ", "<", "/", "d", "i", "v",
                             ">", "\n", " ", " ", "<", "d", "i", "v", " ", "c", "l",
                             "a", "s", "s", "=", "\"", "c", "o", "n", "t", "a", "i",
                             "n", "e", "r", "\"", ">", "\n", " ", " ", " ", " ", "<",
                             "d", "i", "v", " ", "c", "l", "a", "s", "s", "=", "\"",
                             "v", "a", "r", "i", "a", "n", "t", "-", "g", "r", "i",
                             "d", "\"", ">", "\n">>
        \o cards_html
        \o <<"\n", " ", " ", " ", " ", "<", "/", "d", "i", "v", ">", "\n", " ", " ", "<", "/",
           "d", "i", "v", ">", "\n", "<", "/", "b", "o", "d", "y", ">", "\n", "<", "/",
           "h", "t", "m", "l", ">">>
      RECURSIVE JoinFrom(_, _)
      JoinFrom(all_indices, k) ==
        IF k > Len(all_indices) THEN <<>>
        ELSE (IF k > 1 THEN <<"\n">> ELSE <<>>)
             \o IndexCard(all_indices[k], VARIANT_TYPES[all_indices[k] + 1],
                          results, failed_indices)
             \o JoinFrom(all_indices, k + 1)
      Cards(all_indices) ==
        Page(Len(all_indices),
             Cardinality({k \in 1..Len(all_indices) :
                            /\ ~In(all_indices[k], failed_indices)
                            /\ ResultOf(results, all_indices[k]).overall_passed}),
             Len(failed_indices),
             JoinFrom(all_indices, 1))
  IN Cards(Sorted({results[k][1] : k \in 1..Len(results)}
                  \cup {failed_indices[k] : k \in 1..Len(failed_indices)}))

-----------------------------------------------------------------------------
(* pipeline/orchestrator.py: run_pipeline.  run.pc is the statement the    *)
(* call has reached, run.calls the calls it made of the three stages (a    *)
(* call of validate_variant with the item it was given), run.dir whether   *)
(* the output directory was made, run.files the files whose write_text     *)
(* returned, each with its content.  A JSON file is kept                   *)
(* as the value json.loads reads back from it.  write_text of a variant    *)
(* may raise (UnicodeEncodeError for a lone surrogate in the markup,       *)
(* OSError); the three last files are ASCII text and the directory is      *)
(* taken as writable.                                                      *)

MinClaims == 20

MaxExtra == 0

\* the extraction of n claims
Extraction(n) == [k \in 1..n |-> IF k % 2 = 1 THEN ClaimA ELSE ClaimB]

NeverTooFew(extraction) == FALSE

\* len(extraction.claims) < 20
TooFew(extraction) == Len(extraction) < MinClaims

NeverException(item) == FALSE

\* isinstance(item, Exception): an item of raw_variants is the markup of a
\* variant, [html |-> text], or the exception its generation raised
IsException(item) == "exception" \in DOMAIN item

\* the reviews of the pipeline runs: one that passes, one that fails
PipelineReviews == {r \in ReportValues : r.passed = (r.flags = <<>>)}

\* the markup the generator returns for the extraction of n claims, one that
\* states each distinct claim once, and the reports
\* run_programmatic_compliance may return for it, for every size of an
\* extraction run_pipeline accepts
Documents ==
  [n \in MinClaims..(MinClaims + MaxExtra) |-> FactsDoc(Unique(Extraction(n)))]

Reviewed ==
  [n \in MinClaims..(MinClaims + MaxExtra) |->
     run_programmatic_compliance(Documents[n], Extraction(n))]

\* validate_variant(variant_type, item, extraction): the results it may
\* return for a markup, and the exception a failing review call raises; an
\* item that is no text makes html.unescape raise
Validation(variant_type, item, cs) ==
  IF "html" \in DOMAIN item
    THEN {VariantResult([variant_type |-> variant_type, html |-> item.html,
                         programmatic |-> programmatic, semantic |-> semantic,
                         overall_passed |-> FALSE]) :
            programmatic \in Reviewed[Len(cs)],
            semantic \in PipelineReviews}
         \cup {[error |-> "Exception"]}
    ELSE {[error |-> "TypeError"]}

\* f"variant_{i}.html"
VariantFile(i) == "variant_" \o ToString(i) \o ".html"

DumpWithHtml(successful) == [k \in 1..Len(successful) |-> successful[k][2]]

\* [r.model_dump(exclude={"html"}) for _, r in successful]
ReportResults(successful) ==
  [k \in 1..Len(successful) |->
     [f \in DOMAIN successful[k][2] \ {"html"} |-> successful[k][2][f]]]

PipeInit ==
  /\ claims = <<>>
  /\ html = <<>>
  /\ origin = [by |-> Caller, edits |-> 0, encoded |-> FALSE, plain |-> <<>>]
  /\ checks = None
  /\ report = None
  /\ result = None
  /\ raised = NoError
  /\ run = [pc |-> "start", raw |-> <<>>, i |-> 0, successful |-> <<>>,
            failed_indices |-> <<>>, dir |-> FALSE, files |-> <<>>, calls |-> <<>>,
            returned |-> <<>>]

\* extraction = extract_claims(page_content), of no claim, of one claim too
\* few or of MinClaims + MaxExtra claims, and the check of its length
Extract ==
  /\ run.pc = "start"
  /\ \E n \in {0, MinClaims - 1, MinClaims + MaxExtra} : claims' = Extraction(n)
  /\ raised' = IF TooFew(claims') THEN "ValueError" ELSE raised
  /\ run' = [run EXCEPT !.pc = IF TooFew(claims') THEN "raised" ELSE "extracted",
                        !.calls = Append(@, [fn |-> "extract_claims"])]
  /\ UNCHANGED <<html, origin, checks, report, result>>

\* raw_variants = generate_all_variants(extraction.claims,
\* return_exceptions=True), and output_dir.mkdir
GenerateAll ==
  /\ run.pc = "extracted"
  /\ \E raw \in [1..Len(VARIANT_TYPES) -> {[exception |-> "Exception"],
                                            [html |-> Documents[Len(claims)]]}] :
       run' = [run EXCEPT !.pc = "loop", !.raw = raw, !.dir = TRUE,
                          !.calls = Append(@, [fn |-> "generate_all_variants",
                                               return_exceptions |-> TRUE])]
  /\ UNCHANGED <<claims, html, origin, checks, report, result, raised>>

\* one turn of the loop over zip(VARIANT_TYPES, raw_variants)
Process ==
  LET Failed(i) == [run EXCEPT !.i = i + 1, !.failed_indices = Append(@, i)]
      Called(i, vt, item, after) ==
        [after EXCEPT !.calls = Append(@, [fn |-> "validate_variant", variant_type |-> vt,
                                           html |-> item])]
      Validated(i, item, outcome, written) ==
        [run EXCEPT !.i = i + 1,
                    !.successful = Append(@, <<i, outcome>>),
                    !.files = IF written THEN (VariantFile(i) :> item.html) @@ @ ELSE @,
                    !.failed_indices = IF written THEN @ ELSE Append(@, i)]
      Turn(i, vt, item) ==
        IF IsException(item)
          THEN run' = Failed(i)
          ELSE \E outcome \in Validation(vt, item, claims) :
                 IF "error" \in DOMAIN outcome
                   THEN run' = Called(i, vt, item, Failed(i))
                   ELSE \E written \in BOOLEAN :
                          run' = Called(i, vt, item, Validated(i, item, outcome, written))
  IN /\ run.pc = "loop"
     /\ run.i < Len(VARIANT_TYPES)
     /\ Turn(run.i, VARIANT_TYPES[run.i + 1], run.raw[run.i + 1])
     /\ UNCHANGED <<claims, html, origin, checks, report, result, raised>>

\* (output_dir / "claims.json").write_text(json.dumps(extraction.model_dump()))
WriteClaims ==
  /\ run.pc = "loop"
  /\ run.i = Len(VARIANT_TYPES)
  /\ run' = [run EXCEPT !.pc = "claims",
                        !.files = ("claims.json" :> [claims |-> claims]) @@ @]
  /\ UNCHANGED <<claims, html, origin, checks, report, result, raised>>

\* (output_dir / "compliance_report.json").write_text(json.dumps(compliance_report))
WriteReport ==
  LET compliance_report ==
        [compliance_methodology |->
           [programmatic_checks |->
              <<"N", "u", "m", "b", "e", "r", "s", ",", " ", "c", "i", "t", "a", "t", "i", "o", "n",
              "s", ",", " ", "q", "u", "a", "l", "i", "f", "i", "e", "r", "s", ",",
              " ", "a", "n", "d", " ", "e", "n", "d", "p", "o", "i", "n", "t", "s",
              " ", "v", "e", "r", "i", "f", "i", "e", "d", " ", "a", "g", "a", "i",
              "n", "s", "t", " ", "s", "o", "u", "r", "c", "e", " ", "c", "l", "a",
              "i", "m", "s", " ", "v", "i", "a", " ", "a", "u", "t", "o", "m", "a",
              "t", "e", "d", " ", "t", "e", "x", "t", " ", "m", "a", "t", "c", "h",
              "i", "n", "g", ".">>,
            semantic_risk_mitigation |->
              <<"S", "e", "m", "a", "n", "t", "i", "c", " ", "r", "i", "s", "k", "s", " ", "(", "c",
              "l", "a", "i", "m", " ", "e", "x", "p", "a", "n", "s", "i", "o", "n",
              ",", " ", "t", "o", "n", "e", " ", "s", "h", "i", "f", "t", ",", " ",
              "s", "u", "p", "e", "r", "i", "o", "r", "i", "t", "y", " ", "i", "m",
              "p", "l", "i", "c", "a", "t", "i", "o", "n", "s", ")", " ", "a", "r",
              "e", " ", "s", "t", "r", "u", "c", "t", "u", "r", "a", "l", "l", "y",
              " ", "m", "i", "t", "i", "g", "a", "t", "e", "d", " ", "b", "y", " ",
              "t", "e", "m", "p", "l", "a", "t", "e", " ", "r", "e", "n", "d", "e",
              "r", "i", "n", "g", " ", "U2014", " ", "n", "o", " ", "g", "e", "n", "e",
              "r", "a", "t", "i", "v", "e", " ", "p", "r", "o", "s", "e", " ", "m",
              "e", "a", "n", "s", " ", "n", "o", " ", "d", "r", "i", "f", "t", " ",
              "s", "u", "r", "f", "a", "c", "e", ".">>],
         results |-> ReportResults(run.successful)]
  IN /\ run.pc = "claims"
     /\ run' = [run EXCEPT !.pc = "report",
                           !.files = ("compliance_report.json" :> compliance_report) @@ @]
     /\ UNCHANGED <<claims, html, origin, checks, report, result, raised>>

\* (output_dir / "index.html").write_text(_generate_index_html(...)), and
\* return [r for _, r in successful]
WriteIndex ==
  /\ run.pc = "report"
  /\ run' = [run EXCEPT !.pc = "returned",
                        !.files = ("index.html" :> _generate_index_html(run.successful,
                                                                        run.failed_indices)) @@ @,
                        !.returned = [k \in 1..Len(run.successful) |-> run.successful[k][2]]]
  /\ UNCHANGED <<claims, html, origin, checks, report, result, raised>>

PipeNext ==
  \/ Extract
  \/ GenerateAll
  \/ Process
  \/ WriteClaims
  \/ WriteReport
  \/ WriteIndex

PipeSpec == PipeInit /\ [][PipeNext]_vars

\* run_pipeline is one sequence of statements: each statement is executed once
\* the one before it has returned
PipeFairSpec == PipeSpec /\ WF_vars(PipeNext)

-----------------------------------------------------------------------------
(* Properties.  A state with checks # None is one in which                 *)
(* run_programmatic_compliance(html, claims) has returned report; a state  *)
(* with Rendered is one in which html is the output of a renderer.         *)

Checked == checks # None

Rendered == origin.by \in RendererNames /\ raised = NoError

Locations(flags) == [k \in 1..Len(flags) |-> flags[k].location]

Elements(seq) == {seq[k] : k \in 1..Len(seq)}

Statistics(cs) == [i \in 1..Len(cs) |-> cs[i].statistic]

Citations(cs) == [i \in 1..Len(cs) |-> cs[i].citation]

Qualifiers(cs) == Flatten([i \in 1..Len(cs) |-> cs[i].qualifiers])

Endpoints(cs) == [i \in 1..Len(cs) |-> cs[i].endpoint]

\* the visible text of markup contains every statistic, and markup contains
\* every citation, qualifier and endpoint
StatesEveryFact(markup, cs) ==
  /\ \A v \in Elements(Statistics(cs)) : Contains(_visible_text(markup), v)
  /\ \A v \in Elements(Citations(cs)) \cup Elements(Qualifiers(cs)) \cup Elements(Endpoints(cs)) :
       Contains(markup, v)

\* the values of the "<number>%" tokens of the visible text of markup
VisiblePercentages(markup) ==
  {Canon(Decimal(t)) : t \in Elements(FindPercents(_visible_text(markup), 1))}

\* the values of the statistics that are numbers
StatisticValues(cs) ==
  {Canon(_normalize_number(v)) : v \in {w \in Elements(Statistics(cs)) : _normalize_number(w) # None}}

\* C1: the report has passed = true if and only if none of its flags has
\* severity error; a report whose only flags are warnings has passed = true.
C1_PassedIffNoErrorFlag ==
  Checked =>
    (report.passed <=> \A k \in 1..Len(report.flags) : report.flags[k].severity # "error")

\* a report that passed with nothing but qualifier_missing and
\* endpoint_missing warnings in it
C1_WarningsOnlyReport ==
  /\ Checked
  /\ report.flags # <<>>
  /\ \A k \in 1..Len(report.flags) :
       /\ report.flags[k].flag_type \in {"qualifier_missing", "endpoint_missing"}
       /\ report.flags[k].severity = "warning"
  /\ report.passed

\* C2: the report on the output of every renderer, checked against the claims
\* it was rendered from, has passed = true and no flags.
C2_RenderedDocumentPasses ==
  (Rendered /\ Checked) => (report.passed /\ report.flags = <<>>)

\* C3 as stated: a markup that states every fact gets passed = true and an
\* empty flag list.
C3_AllFactsGiveCleanReport ==
  (Checked /\ StatesEveryFact(html, claims)) => (report.passed /\ report.flags = <<>>)

\* C3: a markup which, once decoded, states every fact and whose visible
\* text has no percentage other than 0, 100 and the statistics of the claims
\* gets passed = true and an empty flag list.
C3_AllFactsAndKnownPercentagesGiveCleanReport ==
  (/\ Checked
   /\ StatesEveryFact(checks.decoded, claims)
   /\ VisiblePercentages(checks.decoded) \subseteq
        StatisticValues(claims) \cup {DecimalZero, DecimalHundred})
  => (report.passed /\ report.flags = <<>>)

\* a clean report on a markup that states every fact of some claims and a
\* percentage of value 100 beside them
C3_CleanReportWithLayoutPercentage ==
  /\ Checked
  /\ claims # <<>>
  /\ StatesEveryFact(checks.decoded, claims)
  /\ DecimalHundred \in VisiblePercentages(checks.decoded)
  /\ report.passed /\ report.flags = <<>>

\* C4: check_unexpected_numbers flags the value d if and only if d is the
\* value of a "<number>%" token of the visible text, is neither 0 nor 100 and
\* is the value of no claim's statistic; each flag is an unexpected_number
\* error, and any such flag makes the report fail.
C4_UnexpectedNumberFlags ==
  Checked =>
    /\ \A k \in 1..Len(checks.unexpected) :
         /\ checks.unexpected[k].flag_type = "unexpected_number"
         /\ checks.unexpected[k].severity = "error"
    /\ {Canon(_normalize_number(loc)) : loc \in Elements(Locations(checks.unexpected))}
         = (VisiblePercentages(checks.decoded) \ {DecimalZero, DecimalHundred})
             \ StatisticValues(claims)
    /\ (checks.unexpected # <<>> => ~report.passed)

\* a report with an unexpected_number flag on a markup that also holds
\* percentages outside its visible text
C4_FlaggedBesideHiddenPercentages ==
  /\ Checked
  /\ checks.unexpected # <<>>
  /\ Len(FindPercents(checks.decoded, 1)) > Len(FindPercents(_visible_text(checks.decoded), 1))
  /\ ~report.passed

\* number_missing flags of a flag list
NumberMissing(flags) == SelectSeq(flags, LAMBDA f : f.flag_type = "number_missing")

\* C5: when one claim's statistic is removed from a document that states
\* every fact, the number check and the report hold exactly one
\* number_missing error, located at that statistic, and passed is false.
C5_OneNumberMissingPerRemovedStatistic ==
  \A i \in 1..Len(claims) :
    (Checked /\ html = RemoveText(FactsDoc(claims), claims[i].statistic)) =>
      /\ Len(checks.numbers) = 1
      /\ checks.numbers[1].flag_type = "number_missing"
      /\ checks.numbers[1].severity = "error"
      /\ checks.numbers[1].location = claims[i].statistic
      /\ NumberMissing(report.flags) = checks.numbers
      /\ ~report.passed

\* C6: for a statistic of value d, no number_missing flag when some numeric
\* token of the visible text has value d, and a number_missing flag when
\* every numeric token of the visible text has another value.
C6_NumberMatchIsDecimalExact ==
  Checked =>
    \A v \in {w \in Elements(Statistics(claims)) : _normalize_number(w) # None} :
      (v \in Elements(Locations(checks.numbers)))
        <=> ~\E t \in Elements(FindNumbers(_visible_text(checks.decoded), 1)) :
               DecimalEq(Decimal(t), _normalize_number(v))

\* the flags of one field check are of the given type and severity, and
\* flag exactly the values that are no case-insensitive substring of markup
FieldFlagsAre(flags, values, markup, flag_type, severity) ==
  /\ \A k \in 1..Len(flags) : flags[k].flag_type = flag_type /\ flags[k].severity = severity
  /\ Elements(Locations(flags)) = {v \in values : ~Contains(Lower(markup), Lower(v))}

\* C7: check_citations, check_qualifiers and check_endpoints flag a value if
\* and only if it is no case-insensitive substring of the full markup;
\* citation_missing is an error, qualifier_missing and endpoint_missing are
\* warnings.
C7_FieldFlagsIffNotInMarkup ==
  Checked =>
    /\ FieldFlagsAre(checks.citations, Elements(Citations(claims)), checks.decoded,
                     "citation_missing", "error")
    /\ FieldFlagsAre(checks.qualifiers, Elements(Qualifiers(claims)), checks.decoded,
                     "qualifier_missing", "warning")
    /\ FieldFlagsAre(checks.endpoints, Elements(Endpoints(claims)), checks.decoded,
                     "endpoint_missing", "warning")

\* a citation found only inside a style element and in another letter case,
\* beside a qualifier and an endpoint that are flagged
C7_CitationFoundInStyleElement ==
  /\ Checked
  /\ \E v \in Elements(Citations(claims)) :
       /\ Contains(Lower(checks.decoded), Lower(v))
       /\ ~Contains(Lower(_visible_text(checks.decoded)), Lower(v))
       /\ ~Contains(checks.decoded, v)
  /\ checks.citations = <<>>
  /\ checks.qualifiers # <<>>
  /\ checks.endpoints # <<>>

NoRepeats(seq) == \A a, b \in 1..Len(seq) : a # b => seq[a] # seq[b]

\* locs lists values of the claim list once each, in order of first occurrence
InClaimOrder(locs, values) ==
  locs = SelectSeq(Unique(values), LAMBDA v : v \in Elements(locs))

\* C8: in the output of each of the five checkers no two flags have the same
\* location, and the flags follow the order in which the values first occur
\* in the claim list.
C8_NoDuplicateLocations ==
  Checked =>
    /\ InClaimOrder(Locations(checks.numbers), Statistics(claims))
    /\ InClaimOrder(Locations(checks.citations), Citations(claims))
    /\ InClaimOrder(Locations(checks.qualifiers), Qualifiers(claims))
    /\ InClaimOrder(Locations(checks.endpoints), Endpoints(claims))
    /\ NoRepeats(Locations(checks.unexpected))

\* C9 as stated: the report for a markup written with character references
\* is a report for the markup as it was before.
C9_SameReportForReferences ==
  (Checked /\ origin.encoded) => report \in run_programmatic_compliance(origin.plain, claims)

\* C9: the report for a markup written with character references is a
\* report for the markup as it was before, when that markup held no
\* character reference itself.
C9_SameReportForReferencesOfPlainMarkup ==
  (Checked /\ origin.encoded /\ unescape(origin.plain) = origin.plain)
  => report \in run_programmatic_compliance(origin.plain, claims)

\* a clean report on a markup that states every fact, its "<" and its
\* less-than-or-equal signs written as references
C9_CleanReportOnReferences ==
  /\ Checked /\ origin.encoded
  /\ unescape(origin.plain) = origin.plain
  /\ Contains(html, <<"&", "l", "e", ";">>) /\ Contains(html, <<"&", "l", "t", ";">>)
  /\ claims # <<>>
  /\ report.passed /\ report.flags = <<>>

\* C10: the output of every renderer holds every statistic (escaped) outside
\* style and script elements, and every citation, qualifier and endpoint.
C10_RenderedDocumentStatesEveryFact ==
  Rendered =>
    /\ \A v \in Elements(Statistics(claims)) : Contains(_visible_text(html), _esc(v))
    /\ \A v \in Elements(Citations(claims)) \cup Elements(Qualifiers(claims))
                  \cup Elements(Endpoints(claims)) :
         Contains(html, _esc(v))

-----------------------------------------------------------------------------
(* The renderers on hostile claims                                         *)

\* every text a claim list holds
FieldTexts(cs) ==
  UNION {{cs[i].statistic, cs[i].context, cs[i].timepoint, cs[i].treatment_arm,
          cs[i].sample_size, cs[i].citation, cs[i].endpoint}
         \cup Elements(cs[i].qualifiers) : i \in 1..Len(cs)}

\* the document without its script elements
OutsideScripts(doc) == StripTagFrom(doc, 1, TagScript)

\* C11: in the output of every renderer, no claim field that holds markup
\* characters occurs unescaped outside the script elements
C11_ClaimMarkupIsEscaped ==
  Rendered =>
    \A v \in FieldTexts(claims) :
      _esc(v) # v => ~Contains(OutsideScripts(html), v)

\* the number of places of doc where p starts
Count(doc, p) == Cardinality({i \in 1..Len(doc) : doc[i] = p[1] /\ MatchAt(doc, i, p)})

\* C12: in the output of every renderer a script element ends where the
\* renderer ends it and nowhere else, whatever the claim fields hold: there
\* are as many script end tags as script start tags
C12_NoClaimEndsScriptBlock ==
  Rendered =>
    Count(html, <<"<", "/", "s", "c", "r", "i", "p", "t", ">">>)
      = Count(html, <<"<", "s", "c", "r", "i", "p", "t">>)

-----------------------------------------------------------------------------
(* VariantResult and ComplianceReport                                      *)

\* C13: whatever a caller gives at construction and assigns afterwards,
\* overall_passed of a VariantResult is programmatic.passed and
\* semantic.passed
C13_OverallPassedIsDerived ==
  result # None =>
    result.overall_passed = (result.programmatic.passed /\ result.semantic.passed)

\* C14: a construction from variant_type, html and a programmatic report
\* alone succeeds, and overall_passed is then programmatic.passed
C14_ConstructedFromProgrammaticAlone ==
  [][\A kwargs \in KwargsSets("grouped_bar", html) :
       (Construct(kwargs) /\ DOMAIN kwargs = {"variant_type", "html", "programmatic"})
         => (raised' = NoError /\ result' # None
             /\ result'.overall_passed = kwargs.programmatic.passed)]_vars

\* passed is true if and only if no flag of the report has severity error
ReportIsConsistent(r) == r.passed <=> ~\E k \in 1..Len(r.flags) : r.flags[k].severity = "error"

\* C15: every ComplianceReport a VariantResult holds, from
\* run_programmatic_compliance, from the semantic review or made by a caller, has
\* passed true if and only if it holds no flag of severity error
C15_EveryReportIsConsistent ==
  result # None =>
    ReportIsConsistent(result.programmatic) /\ ReportIsConsistent(result.semantic)

-----------------------------------------------------------------------------
(* Determinism and the documents of unusual claim lists                    *)

StartsWith(doc, p) == MatchAt(doc, 1, p)

EndsWith(doc, p) == MatchAt(doc, Len(doc) - Len(p) + 1, p)

\* least index from a on at which p starts in doc, Len(doc)+1 when none
Find(doc, a, p) ==
  LET At(j) == doc[j] = p[1] /\ MatchAt(doc, j, p)
  IN IF a > Len(doc) THEN Len(doc) + 1
     ELSE CHOOSE j \in a..(Len(doc) + 1) :
            (j = Len(doc) + 1 \/ At(j)) /\ \A k \in a..(j - 1) : ~At(k)

\* doctype, head, body and the closing html tag, in this order
HasSkeleton(doc) ==
  LET head == Find(doc, 1, <<"<", "h", "e", "a", "d", ">">>)
      headEnd(h) == Find(doc, h + 1, <<"<", "/", "h", "e", "a", "d", ">">>)
      body(h) == Find(doc, h + 1, <<"<", "b", "o", "d", "y", ">">>)
      bodyEnd(h) == Find(doc, h + 1, <<"<", "/", "b", "o", "d", "y", ">">>)
  IN /\ StartsWith(doc, <<"<", "!", "D", "O", "C", "T", "Y", "P", "E", " ", "h", "t", "m", "l", ">">>)
     /\ bodyEnd(body(headEnd(head))) <= Len(doc)
     /\ EndsWith(doc, <<"<", "/", "h", "t", "m", "l", ">">>)

\* C17: every renderer applied to the empty claim sequence raises nothing
\* and returns a document that is not empty and has the whole skeleton
C17_EmptyClaimsGiveWholeDocument ==
  (claims = <<>> /\ origin.by \in RendererNames) =>
    (raised = NoError /\ html # <<>> /\ HasSkeleton(html))

\* the timeline of no claim, which the bar fallback renders
C17_TimelineOfNoClaim ==
  claims = <<>> /\ origin.by = "timeline" /\ Rendered /\ html # <<>>

\* C18: whatever text the statistic fields hold, every renderer returns a
\* document and raises nothing (over the claims whose timepoints have a key)
C18_RendersAnyStatistic ==
  (/\ origin.by \in RendererNames
   /\ \A i \in 1..Len(claims) : _sort_timepoint_key(claims[i].timepoint) # None)
    => (raised = NoError /\ html # <<>>)

\* C19: whatever the timepoint labels are, _sort_timepoint_key returns a key
\* for each and render_timeline returns a document and raises nothing
C19_TimelineRendersAnyTimepoint ==
  origin.by = "timeline" =>
    /\ raised = NoError /\ html # <<>>
    /\ \A i \in 1..Len(claims) : _sort_timepoint_key(claims[i].timepoint) # None

\* a label '<Unit> <number>': the pattern matches and the number is one
IsUnitLabel(tp) == TimepointGroup(tp) # <<>> /\ Decimal(TimepointGroup(tp)) # None

\* the place of the unit of a label in Day, Week, Month, Year
UnitOf(tp) == TimepointOrder(Lower(Split(tp)[1]))

\* the number of label a is less than the number of label b
NumberLess(a, b) ==
  LET Less(x, y) == x.coef * Pow10(y.scale) < y.coef * Pow10(x.scale)
  IN Less(Decimal(TimepointGroup(a)), Decimal(TimepointGroup(b)))

\* C20: of two labels '<Unit> <number>' that render_timeline sorted, the one
\* of the earlier unit (Day, Week, Month, Year) has the lesser key, and of
\* two labels of one unit the one of the lesser number has the lesser key
C20_KeyOrdersUnitsThenNumbers ==
  (origin.by = "timeline" /\ Rendered) =>
    \A i, j \in 1..Len(claims) :
      LET Ordered(a, b) ==
            /\ UnitOf(a) < UnitOf(b) => KeyLess(_sort_timepoint_key(a), _sort_timepoint_key(b))
            /\ (UnitOf(a) = UnitOf(b) /\ NumberLess(a, b))
                 => KeyLess(_sort_timepoint_key(a), _sort_timepoint_key(b))
      IN (IsUnitLabel(claims[i].timepoint) /\ IsUnitLabel(claims[j].timepoint))
           => Ordered(claims[i].timepoint, claims[j].timepoint)

-----------------------------------------------------------------------------
(* The timeline and the grouping utilities                                 *)

\* the label matches the '<Unit> <number>' pattern
Recognised(tp) == TimepointGroup(tp) # <<>>

\* the x-axis labels of a line chart, as render_timeline writes them
LabelsJson(tps) ==
  <<"l", "a", "b", "e", "l", "s", ":", " ">>
  \o JsonList([k \in 1..Len(tps) |-> JsonString(tps[k])])

\* the timeline took the line layout: two different timepoints at least
LineLayout ==
  /\ Rendered /\ origin.by = "timeline"
  /\ Len(_unique_values(claims, "timepoint")) > 1

\* C21: in the sorted timepoints of a timeline, which the line chart has
\* as its labels, no label outside the pattern comes before a label of
\* the pattern, and the labels outside the pattern are in the order in
\* which the claim list first holds them
C21_UnrecognisedLabelsLastInFirstSeenOrder ==
  LineLayout =>
    LET Unrecognised(tp) == ~Recognised(tp)
        InOrder(tps, sorted) ==
          /\ Contains(html, LabelsJson(sorted))
          /\ \A i, j \in 1..Len(sorted) :
               (i < j /\ Recognised(sorted[j])) => Recognised(sorted[i])
          /\ SelectSeq(sorted, Unrecognised) = SelectSeq(tps, Unrecognised)
    IN InOrder(_unique_values(claims, "timepoint"),
               SortTimepoints(_unique_values(claims, "timepoint")))

\* a timeline whose claim list holds a label outside the pattern first and
\* a label of the pattern second
C21_UnrecognisedFirstInClaims ==
  /\ LineLayout /\ Len(claims) = 2
  /\ ~Recognised(claims[1].timepoint) /\ Recognised(claims[2].timepoint)

\* out holds each value of values once, in the order in which values first
\* holds them
FirstSeen(values, out) ==
  LET First(v) == CHOOSE i \in 1..Len(values) : values[i] = v /\ \A j \in 1..(i - 1) : values[j] # v
  IN /\ Elements(out) = Elements(values)
     /\ \A a, b \in 1..Len(out) : a < b => (out[a] # out[b] /\ First(out[a]) < First(out[b]))

\* the groups are those of the key pairs in first-seen order, each group
\* the claims of its key in their order, each claim in one group
GroupedInOrder(cs, field1, field2, groups) ==
  /\ FirstSeen([i \in 1..Len(cs) |-> <<cs[i][field1], cs[i][field2]>>],
               [g \in 1..Len(groups) |-> groups[g].key])
  /\ \A g \in 1..Len(groups) :
       groups[g].group
         = SelectSeq(cs, LAMBDA c : <<c[field1], c[field2]>> = groups[g].key)
  /\ \A i \in 1..Len(cs) :
       Cardinality({g \in 1..Len(groups) :
                      \E k \in 1..Len(groups[g].group) : groups[g].group[k] = cs[i]}) = 1

\* C22: for the claims a renderer was given, _unique_values and
\* _collect_qualifiers return each value once in first-seen order, and
\* _group_by_keys returns the groups in first-seen order of their keys,
\* each with its claims in their order, every claim in exactly one group
C22_GroupingKeepsFirstSeenOrder ==
  Rendered =>
    /\ \A field \in {"treatment_arm", "timepoint", "endpoint", "citation", "context"} :
         FirstSeen([i \in 1..Len(claims) |-> claims[i][field]],
                   _unique_values(claims, field))
    /\ FirstSeen(Flatten([i \in 1..Len(claims) |-> claims[i].qualifiers]),
                 _collect_qualifiers(claims))
    /\ GroupedInOrder(claims, "timepoint", "endpoint",
                      _group_by_keys(claims, "timepoint", "endpoint"))
    /\ GroupedInOrder(claims, "treatment_arm", "endpoint",
                      _group_by_keys(claims, "treatment_arm", "endpoint"))

\* two claims of different arms and qualifiers that share a timepoint and
\* an endpoint, the arm that sorts last given first
C22_TwoArmsOfOneGroup ==
  /\ Rendered /\ Len(claims) = 2
  /\ claims[1].treatment_arm = <<"R", "x", " ", "5", "m", "g">>
  /\ claims[2].treatment_arm = <<"P", "b">>
  /\ claims[1].qualifiers # claims[2].qualifiers
  /\ Len(_group_by_keys(claims, "timepoint", "endpoint")) = 1

\* the charts of a type in a document
Charts(doc, chart_type) ==
  Count(doc, <<"t", "y", "p", "e", ":", " ", "'">> \o chart_type \o <<"'">>)

\* C23: a timeline of two or more different timepoints holds one line chart
\* for each endpoint and no bar chart; a timeline of one timepoint holds one
\* bar chart for each group of timepoint and endpoint and no line chart
C23_TimelineLayoutFollowsTimepoints ==
  (Rendered /\ origin.by = "timeline" /\ claims # <<>>) =>
    IF Len(_unique_values(claims, "timepoint")) > 1
      THEN /\ Charts(html, <<"l", "i", "n", "e">>) = Len(_unique_values(claims, "endpoint"))
           /\ Charts(html, <<"b", "a", "r">>) = 0
           /\ Contains(html, LabelsJson(SortTimepoints(_unique_values(claims, "timepoint"))))
      ELSE /\ Charts(html, <<"b", "a", "r">>)
                = Len(_group_by_keys(claims, "timepoint", "endpoint"))
           /\ Charts(html, <<"l", "i", "n", "e">>) = 0

\* the start of the dataset that pairs a treatment arm with a parsed statistic
DatasetOf(arm, val) ==
  <<"{", "\"", "l", "a", "b", "e", "l", "\"", ":", " ">> \o JsonString(arm)
  \o <<",", " ", "\"", "d", "a", "t", "a", "\"", ":", " ", "[">> \o JsonValue(val) \o <<"]">>

\* the documents whose charts are bar charts of treatment arms
BarCharted ==
  /\ Rendered
  /\ claims # <<>>
  /\ \/ origin.by = "grouped_bar"
     \/ origin.by = "timeline" /\ Len(_unique_values(claims, "timepoint")) = 1

\* C29: in the bar charts of the grouped comparison and of the timeline of one
\* timepoint every claim is drawn as a dataset that pairs its treatment arm with
\* its parsed statistic, and there are as many datasets as claims
C29_EveryClaimIsADataset ==
  BarCharted =>
    /\ \A i \in 1..Len(claims) :
         Contains(html, DatasetOf(claims[i].treatment_arm, _parse_stat(claims[i].statistic)))
    /\ Count(html, <<"{", "\"", "l", "a", "b", "e", "l", "\"", ":", " ">>) = Len(claims)


\* the claims whose statistic parses to a number
ParsedClaims == {i \in 1..Len(claims) : _parse_stat(claims[i].statistic) # None}

\* the distance of the statistic of claim i from the minimum, and the three
\* channels of its cell
HeatOffset(i, range) == Scaled(_parse_stat(claims[i].statistic), range.scale) - range.min_val

HeatChannels(i, range) ==
  <<Blend(224, 26, HeatOffset(i, range), range.val_range),
    Blend(242, 43, HeatOffset(i, range), range.val_range),
    Blend(254, 74, HeatOffset(i, range), range.val_range)>>

\* the style that opens the cell of claim i
HeatCellStyle(i, range) ==
  <<"b", "a", "c", "k", "g", "r", "o", "u", "n", "d", "-", "c", "o", "l", "o", "r", ":", " ",
    "r", "g", "b", "(">> \o NatStr(HeatChannels(i, range)[1]) \o <<",">>
  \o NatStr(HeatChannels(i, range)[2]) \o <<",">> \o NatStr(HeatChannels(i, range)[3])
  \o <<")", ";", " ", "c", "o", "l", "o", "r", ":", " ">>
  \o (IF 10 * HeatOffset(i, range) > 6 * range.val_range
        THEN <<"#", "f", "f", "f", "f", "f", "f">> ELSE <<"#", "1", "a", "2", "b", "4", "a">>)
  \o <<";">>

\* the colours of the cells of a heat map, for the range of its statistics
HeatColoursFollowValues(range) ==
  /\ range.val_range > 0
  /\ \A i \in ParsedClaims :
       /\ Contains(html, HeatCellStyle(i, range))
       /\ HeatChannels(i, range)[1] \in 26..224
       /\ HeatChannels(i, range)[2] \in 43..242
       /\ HeatChannels(i, range)[3] \in 74..254
       /\ HeatOffset(i, range) = 0 => HeatChannels(i, range) = <<224, 242, 254>>
       /\ (range.max_val # range.min_val /\ HeatOffset(i, range) = range.val_range)
            => HeatChannels(i, range) = <<26, 43, 74>>
       /\ \A j \in ParsedClaims :
            HeatOffset(i, range) <= HeatOffset(j, range)
              => \A k \in 1..3 : HeatChannels(i, range)[k] >= HeatChannels(j, range)[k]

\* C28: the heat map of claims with parsed statistics is rendered, and in it
\* the cell of a minimum is rgb(224,242,254), the cell of a maximum is
\* rgb(26,43,74), every channel lies between the two and never increases with
\* the value, equal values are all rgb(224,242,254), and the text is white
\* exactly above six tenths of the range
C28_HeatColoursFollowValues ==
  (origin.by = "heatmap" /\ ParsedClaims # {}) =>
    /\ raised = NoError
    /\ HeatColoursFollowValues(HeatRange(claims))

\* the same on heat maps whose statistics are all finite numbers
HeatColoursOfFiniteValues ==
  (origin.by = "heatmap" /\ ParsedClaims # {}
     /\ \A i \in ParsedClaims : IsFinite(_parse_stat(claims[i].statistic))) =>
    /\ raised = NoError
    /\ HeatColoursFollowValues(HeatRange(claims))

-----------------------------------------------------------------------------
(* The pipeline.  The properties below are read on the runs of             *)
(* run_pipeline, in which run is a record.                                 *)

\* C24: once an extraction of fewer than 20 claims has come back, run_pipeline
\* has raised ValueError, neither generate_all_variants nor validate_variant
\* was called, and no directory and no file was made
C24_TooFewClaimsStopTheRun ==
  (run.pc # "start" /\ Len(claims) < MinClaims) =>
    /\ run.pc = "raised"
    /\ raised = "ValueError"
    /\ \A k \in 1..Len(run.calls) : run.calls[k].fn = "extract_claims"
    /\ ~run.dir
    /\ DOMAIN run.files = {}

C24_OneClaimTooFew == run.pc = "raised" /\ Len(claims) = MinClaims - 1

\* the indices of the variants recorded as successful
SuccessfulIndices == {run.successful[k][1] : k \in 1..Len(run.successful)}

\* the indices of the variants recorded as failed
FailedIndices == {run.failed_indices[k] : k \in 1..Len(run.failed_indices)}

\* C25: when run_pipeline has returned, all five variants were processed, each
\* index is recorded as successful or as failed and never as both, and the
\* variants of the returned results are those whose file was written
C25_EachVariantSuccessfulOrFailed ==
  run.pc = "returned" =>
    /\ run.i = Len(VARIANT_TYPES)
    /\ SuccessfulIndices \cup FailedIndices = 0..(Len(VARIANT_TYPES) - 1)
    /\ SuccessfulIndices \cap FailedIndices = {}
    /\ Len(run.returned) = Len(run.successful)
    /\ \A i \in 0..(Len(VARIANT_TYPES) - 1) :
         (i \in SuccessfulIndices) <=> (VariantFile(i) \in DOMAIN run.files)

\* the same on the runs in which no write of a variant file failed
BookkeepingWithoutWriteFailure ==
  (run.pc = "returned"
     /\ \A k \in 1..Len(run.successful) : VariantFile(run.successful[k][1]) \in DOMAIN run.files) =>
    /\ run.i = Len(VARIANT_TYPES)
    /\ SuccessfulIndices \cup FailedIndices = 0..(Len(VARIANT_TYPES) - 1)
    /\ SuccessfulIndices \cap FailedIndices = {}
    /\ \A i \in 0..(Len(VARIANT_TYPES) - 1) :
         (i \in SuccessfulIndices) <=> (VariantFile(i) \in DOMAIN run.files)

\* the variants among the first n whose generation did not fail, in index order
GeneratedBefore(n) == Sorted({j \in 0..(n - 1) : "html" \in DOMAIN run.raw[j + 1]})

\* the calls of validate_variant the first n variants ask for
ValidateCalls(indices) ==
  [k \in 1..Len(indices) |->
     [fn |-> "validate_variant", variant_type |-> VARIANT_TYPES[indices[k] + 1],
      html |-> run.raw[indices[k] + 1]]]

\* C26: the calls of a run are extract_claims once, then generate_all_variants
\* once with return_exceptions=True, then validate_variant once for each
\* variant processed whose generation did not fail, in index order, with its
\* type name and its markup
C26_StagesAreCalledInOrder ==
  run.pc # "start" =>
    /\ run.calls[1] = [fn |-> "extract_claims"]
    /\ run.pc \in {"raised", "extracted"} => Len(run.calls) = 1
    /\ run.pc \notin {"raised", "extracted"} =>
         /\ run.calls[2] = [fn |-> "generate_all_variants", return_exceptions |-> TRUE]
         /\ SubSeq(run.calls, 3, Len(run.calls)) = ValidateCalls(GeneratedBefore(run.i))

C26_SomeGenerationsFailed ==
  /\ run.pc = "returned"
  /\ Len(run.calls) = 4
  /\ run.calls[3].variant_type = "timeline"
  /\ run.calls[4].variant_type = "infographic"

\* the three last files hold the extraction, a report with one entry for each
\* returned result, in the order of the results, none with the html field,
\* and the index page
OutputsWritten ==
  /\ {"claims.json", "compliance_report.json", "index.html"} \subseteq DOMAIN run.files
  /\ run.files["claims.json"] = [claims |-> claims]
  /\ Len(run.files["compliance_report.json"].results) = Len(run.returned)
  /\ \A k \in 1..Len(run.returned) :
       /\ DOMAIN run.files["compliance_report.json"].results[k]
            = DOMAIN run.returned[k] \ {"html"}
       /\ \A f \in DOMAIN run.returned[k] \ {"html"} :
            run.files["compliance_report.json"].results[k][f] = run.returned[k][f]
  /\ \A k \in 1..Len(run.returned) : run.returned[k] = run.successful[k][2]
  /\ \A k \in 2..Len(run.successful) : run.successful[k - 1][1] < run.successful[k][1]

IndexPage == run.files["index.html"]

\* the header chip of a count
StatChip(n, label) ==
  <<"<", "s", "p", "a", "n", " ", "c", "l", "a", "s", "s", "=", "\"", "s", "t", "a", "t",
  "-", "n", "u", "m", "\"", ">">> \o NatStr(n) \o <<"<", "/", "s", "p", "a", "n", ">", " ">> \o label \o <<"<", "/", "d", "i", "v", ">">>

\* C30: on the index page every successful or failed variant has one card,
\* the card links to the file of the variant exactly when the variant is not
\* failed, the Passed and Failed counts of the header are the numbers of
\* Passed and Failed badges, and Variants is their sum
C30_IndexCountsAgreeWithCards ==
  run.pc = "returned" =>
    /\ \A i \in 0..(Len(VARIANT_TYPES) - 1) :
         /\ Count(IndexPage, <<"<", "s", "p", "a", "n", " ", "c", "l", "a", "s", "s", "=", "\"", "c", "a", "r", "d",
                             "-", "n", "u", "m", "b", "e", "r", "\"", ">", "V", "a",
                             "r", "i", "a", "n", "t", " ">> \o NatStr(i) \o <<"<", "/", "s", "p", "a", "n", ">">>)
              = IF i \in SuccessfulIndices \cup FailedIndices THEN 1 ELSE 0
         /\ Contains(IndexPage, <<"h", "r", "e", "f", "=", "'">> \o <<"v", "a", "r", "i", "a", "n", "t", "_">> \o NatStr(i) \o <<".", "h", "t", "m", "l">>)
              <=> (i \in SuccessfulIndices \ FailedIndices)
    /\ Contains(IndexPage,
                StatChip(Count(IndexPage, <<"<", "s", "p", "a", "n", " ", "c", "l", "a", "s", "s", "=", "\"", "b", "a", "d", "g",
                                          "e", " ", "b", "a", "d", "g", "e", "-", "p",
                                          "a", "s", "s", "e", "d", "\"", ">", "P", "a",
                                          "s", "s", "e", "d", "<", "/", "s", "p", "a",
                                          "n", ">">>),
                         <<"P", "a", "s", "s", "e", "d">>))
    /\ Contains(IndexPage,
                StatChip(Count(IndexPage, <<"<", "s", "p", "a", "n", " ", "c", "l", "a", "s", "s", "=", "\"", "b", "a", "d", "g",
                                          "e", " ", "b", "a", "d", "g", "e", "-", "f",
                                          "a", "i", "l", "e", "d", "\"", ">", "F", "a",
                                          "i", "l", "e", "d", "<", "/", "s", "p", "a",
                                          "n", ">">>),
                         <<"F", "a", "i", "l", "e", "d">>))
    /\ Contains(IndexPage,
                StatChip(Count(IndexPage, <<"<", "s", "p", "a", "n", " ", "c", "l", "a", "s", "s", "=", "\"", "b", "a", "d", "g",
                                          "e", " ", "b", "a", "d", "g", "e", "-", "p",
                                          "a", "s", "s", "e", "d", "\"", ">", "P", "a",
                                          "s", "s", "e", "d", "<", "/", "s", "p", "a",
                                          "n", ">">>)
                           + Count(IndexPage, <<"<", "s", "p", "a", "n", " ", "c", "l", "a", "s", "s", "=", "\"", "b", "a", "d", "g",
                                              "e", " ", "b", "a", "d", "g", "e", "-",
                                              "f", "a", "i", "l", "e", "d", "\"", ">",
                                              "F", "a", "i", "l", "e", "d", "<", "/",
                                              "s", "p", "a", "n", ">">>),
                         <<"V", "a", "r", "i", "a", "n", "t", "s">>))

\* the cards, the links and the Passed count alone
IndexCardsAndPassedCount ==
  run.pc = "returned" =>
    /\ \A i \in 0..(Len(VARIANT_TYPES) - 1) :
         /\ Count(IndexPage, <<"<", "s", "p", "a", "n", " ", "c", "l", "a", "s", "s", "=", "\"", "c", "a", "r", "d",
                             "-", "n", "u", "m", "b", "e", "r", "\"", ">", "V", "a",
                             "r", "i", "a", "n", "t", " ">> \o NatStr(i) \o <<"<", "/", "s", "p", "a", "n", ">">>)
              = IF i \in SuccessfulIndices \cup FailedIndices THEN 1 ELSE 0
         /\ Contains(IndexPage, <<"h", "r", "e", "f", "=", "'">> \o <<"v", "a", "r", "i", "a", "n", "t", "_">> \o NatStr(i) \o <<".", "h", "t", "m", "l">>)
              <=> (i \in SuccessfulIndices \ FailedIndices)
    /\ Contains(IndexPage,
                StatChip(Count(IndexPage, <<"<", "s", "p", "a", "n", " ", "c", "l", "a", "s", "s", "=", "\"", "b", "a", "d", "g",
                                          "e", " ", "b", "a", "d", "g", "e", "-", "p",
                                          "a", "s", "s", "e", "d", "\"", ">", "P", "a",
                                          "s", "s", "e", "d", "<", "/", "s", "p", "a",
                                          "n", ">">>),
                         <<"P", "a", "s", "s", "e", "d">>))
    /\ Contains(IndexPage,
                StatChip(Count(IndexPage, <<"<", "s", "p", "a", "n", " ", "c", "l", "a", "s", "s", "=", "\"", "b", "a", "d", "g",
                                          "e", " ", "b", "a", "d", "g", "e", "-", "p",
                                          "a", "s", "s", "e", "d", "\"", ">", "P", "a",
                                          "s", "s", "e", "d", "<", "/", "s", "p", "a",
                                          "n", ">">>)
                           + Count(IndexPage, <<"<", "s", "p", "a", "n", " ", "c", "l", "a", "s", "s", "=", "\"", "b", "a", "d", "g",
                                              "e", " ", "b", "a", "d", "g", "e", "-",
                                              "f", "a", "i", "l", "e", "d", "\"", ">",
                                              "F", "a", "i", "l", "e", "d", "<", "/",
                                              "s", "p", "a", "n", ">">>),
                         <<"V", "a", "r", "i", "a", "n", "t", "s">>))

====
